---------------------------- MODULE Spec2Model ----------------------------
(***************************************************************************)
(* The three-layer framework of shared/layer_framework/__init__.py:        *)
(* LayerExpectation, DirectionBuffer.validate, the Top/Middle/Bottom       *)
(* stages and ThreeLayerOrchestrator.execute_workflow.                     *)
(*                                                                         *)
(* Python objects are records.  DirectionBuffer objects live in a heap     *)
(* (buffers) and are referred to by id, so that a stage's input_buffer and *)
(* the creating stage's output_buffer are the same object.  A buffer no    *)
(* reference reaches any more is dropped from the heap, as the interpreter *)
(* does.  A coroutine runs atomically between two suspension points; the   *)
(* suspension points are inside the abstract hooks orchestrate,            *)
(* execute_core_logic and finalize_output.                                 *)
(***************************************************************************)
EXTENDS Integers, Sequences, FiniteSets, TLC

VARIABLES
    stages,         \* stage id -> the LayerInterface object
    orchestrator,   \* the ThreeLayerOrchestrator object
    buffers,        \* heap: buffer id -> DirectionBuffer object
    held,           \* ids of the buffers the collaborator built and holds
    call,           \* the frame of the current (or last) call made from outside
    ncalls,         \* execute_workflow / process calls started so far
    nmanual,        \* DirectionBuffer.validate calls made by the collaborator
    clock,          \* datetime.now(): a reading per call of now()
    peer            \* a second ThreeLayerOrchestrator and the frame of its call

vars == <<stages, orchestrator, buffers, held, call, ncalls, nmanual, clock, peer>>

(***************************************************************************)
(* Bounds of the model.                                                    *)
(***************************************************************************)
MaxCalls == 2       \* calls of execute_workflow (or of process) per behaviour
MaxManual == 2      \* validate() calls the collaborator makes itself
MaxHeld == 1        \* buffers the collaborator builds and holds

(***************************************************************************)
(* Enumerations.                                                           *)
(***************************************************************************)
TOP == "top"
MIDDLE == "middle"
BOTTOM == "bottom"
LayerType == {TOP, MIDDLE, BOTTOM}

PASSED == "passed"
FAILED == "failed"
WARNING == "warning"
ValidationStatus == {PASSED, FAILED, WARNING}

(***************************************************************************)
(* Python values that travel as payloads.  kind is type(x).__name__; n is  *)
(* the int, the length of the str or the number of entries of the dict.    *)
(* BadStr and BadBool are objects whose __str__ / __bool__ raise.          *)
(***************************************************************************)
PyNone == [kind |-> "NoneType", n |-> 0]
PyInt(i) == [kind |-> "int", n |-> i]
PyStr(len) == [kind |-> "str", n |-> len]
PyDict(entries) == [kind |-> "dict", n |-> entries]
BadStr == [kind |-> "BadStr", n |-> 0]
BadBool == [kind |-> "BadBool", n |-> 0]
Unset == [kind |-> "<unset>", n |-> 0]       \* a local not assigned yet

Payloads ==
    {PyNone, PyInt(0), PyInt(1), PyStr(0), PyStr(1), PyDict(0), PyDict(1),
     BadStr, BadBool}

\* An exception object: its class and str(e).
Exc(type, text) == [type |-> type, text |-> text]
NoExc == Exc("", "")
StrError == Exc("RuntimeError", "__str__ failed")
BoolError == Exc("TypeError", "__bool__ failed")
SchemaError == Exc("KeyError", "schema lookup failed")

\* The outcome of evaluating an expression: a value, or a raised exception.
Ret(v) == [raised |-> FALSE, value |-> v, exc |-> NoExc]
Raise(e) == [raised |-> TRUE, value |-> Unset, exc |-> e]

\* bool(x)
PyBool(x) ==
    CASE x.kind = "BadBool" -> [raised |-> TRUE, value |-> FALSE, exc |-> BoolError]
      [] x.kind = "BadStr" -> [raised |-> FALSE, value |-> TRUE, exc |-> NoExc]
      [] x.kind = "NoneType" -> [raised |-> FALSE, value |-> FALSE, exc |-> NoExc]
      [] OTHER -> [raised |-> FALSE, value |-> x.n # 0, exc |-> NoExc]

\* len(str(x)): "None", the decimal digits, the characters, "{}" or one
\* "'k': 'v'" entry per key separated by ", ".
PyStrLen(x) ==
    CASE x.kind = "BadStr" -> [raised |-> TRUE, value |-> 0, exc |-> StrError]
      [] x.kind = "NoneType" -> [raised |-> FALSE, value |-> 4, exc |-> NoExc]
      [] x.kind = "int" -> [raised |-> FALSE, value |-> IF x.n < 10 THEN 1 ELSE 2, exc |-> NoExc]
      [] x.kind = "str" -> [raised |-> FALSE, value |-> x.n, exc |-> NoExc]
      [] x.kind = "dict" -> [raised |-> FALSE,
                             value |-> IF x.n = 0 THEN 2 ELSE 10 * x.n, exc |-> NoExc]
      [] x.kind \in {"FactCheckRequest", "RevisedResponse"} ->
            [raised |-> FALSE, value |-> x.n, exc |-> NoExc]
      [] OTHER -> [raised |-> FALSE, value |-> 8, exc |-> NoExc]

(***************************************************************************)
(* LayerExpectation.  cls is the class of the object: LayerExpectation     *)
(* itself, or a subclass a collaborator supplies that overrides            *)
(* validate_input (StrictExpectation accepts dict payloads only,           *)
(* FaultyExpectation raises).  NoExpectation is None where a               *)
(* LayerExpectation was due.                                               *)
(***************************************************************************)
LayerExpectation(cls, layer_type, input_schema, output_schema, validation_rules) ==
    [cls |-> cls, layer_type |-> layer_type, input_schema |-> input_schema,
     output_schema |-> output_schema, validation_rules |-> validation_rules,
     quality_requirements |-> "{}", performance_constraints |-> "{}"]

NoExpectation == LayerExpectation("NoneType", "", "", "", <<>>)

ExpectationClasses == {"LayerExpectation", "StrictExpectation", "FaultyExpectation"}

validate_input(expectations, data) ==
    CASE expectations.cls = "LayerExpectation" ->
            [raised |-> FALSE, value |-> TRUE, exc |-> NoExc]
      [] expectations.cls = "StrictExpectation" ->
            [raised |-> FALSE, value |-> data.kind = "dict", exc |-> NoExc]
      [] OTHER ->
            [raised |-> TRUE, value |-> FALSE, exc |-> SchemaError]

(***************************************************************************)
(* DirectionBuffer and BufferValidation.                                   *)
(***************************************************************************)
BufferValidation(status, message, timestamp, layer_from, layer_to, data_size, details) ==
    [status |-> status, message |-> message, timestamp |-> timestamp,
     layer_from |-> layer_from, layer_to |-> layer_to, data_size |-> data_size,
     validation_details |-> details]

DirectionBuffer(source_layer, target_layer, expectations, data, metadata) ==
    [source_layer |-> source_layer, target_layer |-> target_layer,
     expectations |-> expectations, data |-> data, metadata |-> metadata,
     validation_results |-> <<>>]

\* Mutant of validate_try: the size is len(data), not len(str(data)); len of
\* an int raises TypeError.
validate_try_len_of_data(buf, now) ==
    LET input_valid == validate_input(buf.expectations, buf.data)
        truth == PyBool(buf.data)
        size == IF ~truth.value THEN [raised |-> FALSE, value |-> 0, exc |-> NoExc]
                ELSE IF buf.data.kind \in {"str", "dict"}
                     THEN [raised |-> FALSE, value |-> buf.data.n, exc |-> NoExc]
                ELSE [raised |-> TRUE, value |-> 0,
                      exc |-> Exc("TypeError", "object has no len()")]
    IN  IF input_valid.raised THEN Raise(input_valid.exc)
        ELSE IF truth.raised THEN Raise(truth.exc)
        ELSE IF size.raised THEN Raise(size.exc)
        ELSE Ret(BufferValidation(
                    IF input_valid.value THEN PASSED ELSE FAILED,
                    IF input_valid.value THEN "Buffer validation passed"
                                         ELSE "Buffer validation failed",
                    now, buf.source_layer, buf.target_layer, size.value,
                    [input_valid |-> input_valid.value]))

\* Mutant of validate_try: the outcome names the layers the wrong way round.
validate_try_layers_swapped(buf, now) ==
    LET input_valid == validate_input(buf.expectations, buf.data)
        truth == PyBool(buf.data)
        size == IF truth.value THEN PyStrLen(buf.data)
                ELSE [raised |-> FALSE, value |-> 0, exc |-> NoExc]
    IN  IF input_valid.raised THEN Raise(input_valid.exc)
        ELSE IF truth.raised THEN Raise(truth.exc)
        ELSE IF size.raised THEN Raise(size.exc)
        ELSE Ret(BufferValidation(
                    IF input_valid.value THEN PASSED ELSE FAILED,
                    IF input_valid.value THEN "Buffer validation passed"
                                         ELSE "Buffer validation failed",
                    now, buf.target_layer, buf.source_layer, size.value,
                    [input_valid |-> input_valid.value]))

\* Mutant of validate_try: a payload the predicate rejects gets a Warning.
validate_try_warns(buf, now) ==
    LET input_valid == validate_input(buf.expectations, buf.data)
        truth == PyBool(buf.data)
        size == IF truth.value THEN PyStrLen(buf.data)
                ELSE [raised |-> FALSE, value |-> 0, exc |-> NoExc]
    IN  IF input_valid.raised THEN Raise(input_valid.exc)
        ELSE IF truth.raised THEN Raise(truth.exc)
        ELSE IF size.raised THEN Raise(size.exc)
        ELSE Ret(BufferValidation(
                    IF input_valid.value THEN PASSED ELSE WARNING,
                    IF input_valid.value THEN "Buffer validation passed"
                                         ELSE "Buffer validation failed",
                    now, buf.source_layer, buf.target_layer, size.value,
                    [input_valid |-> input_valid.value]))

\* The try block of validate (lines 93-108): the outcome it builds, or the
\* exception that leaves it.
validate_try(buf, now) ==
    LET input_valid == validate_input(buf.expectations, buf.data)
        truth == PyBool(buf.data)
        size == IF truth.value THEN PyStrLen(buf.data)
                ELSE [raised |-> FALSE, value |-> 0, exc |-> NoExc]
    IN  IF input_valid.raised THEN Raise(input_valid.exc)
        ELSE IF truth.raised THEN Raise(truth.exc)
        ELSE IF size.raised THEN Raise(size.exc)
        ELSE Ret(BufferValidation(
                    IF input_valid.value THEN PASSED ELSE FAILED,
                    IF input_valid.value THEN "Buffer validation passed"
                                         ELSE "Buffer validation failed",
                    now, buf.source_layer, buf.target_layer, size.value,
                    [input_valid |-> input_valid.value]))

\* The except block of validate (lines 113-122).
validate_except(buf, now, e) ==
    BufferValidation(FAILED, "Buffer validation error: " \o e.text, now,
                     buf.source_layer, buf.target_layer, 0, [error |-> e.text])

NoValidation == BufferValidation("", "", 0, "", "", 0, [unset |-> TRUE])

\* Mutant of validate: no except block, the exception leaves validate.
validate_propagate(buf, now) ==
    LET tried == validate_try(buf, now)
    IN  IF tried.raised
        THEN [raised |-> TRUE, exc |-> tried.exc, validation |-> NoValidation, buf |-> buf]
        ELSE [raised |-> FALSE, exc |-> NoExc, validation |-> tried.value,
              buf |-> [buf EXCEPT !.validation_results = Append(@, tried.value)]]

\* Mutant of validate: the except block returns its outcome without
\* appending it to validation_results.
validate_except_no_append(buf, now) ==
    LET tried == validate_try(buf, now)
    IN  IF tried.raised
        THEN [raised |-> FALSE, exc |-> NoExc,
              validation |-> validate_except(buf, now, tried.exc), buf |-> buf]
        ELSE [raised |-> FALSE, exc |-> NoExc, validation |-> tried.value,
              buf |-> [buf EXCEPT !.validation_results = Append(@, tried.value)]]

\* Mutant of validate: a buffer that already has an outcome is not checked
\* again, the call reports a Warning.
validate_skip_repeat(buf, now) ==
    LET tried == validate_try(buf, now)
        validation ==
            IF buf.validation_results # <<>>
            THEN BufferValidation(WARNING, "Buffer already validated", now,
                                  buf.source_layer, buf.target_layer, 0,
                                  [input_valid |-> TRUE])
            ELSE IF tried.raised THEN validate_except(buf, now, tried.exc)
            ELSE tried.value
    IN  [raised |-> FALSE, exc |-> NoExc,
         validation |-> validation,
         buf |-> [buf EXCEPT !.validation_results = Append(@, validation)]]

\* DirectionBuffer.validate: the outcome returned (or the exception that
\* leaves it: none) and the buffer afterwards.
validate(buf, now) ==
    LET tried == validate_try(buf, now)
        validation == IF tried.raised THEN validate_except(buf, now, tried.exc)
                      ELSE tried.value
    IN  [raised |-> FALSE, exc |-> NoExc,
         validation |-> validation,
         buf |-> [buf EXCEPT !.validation_results = Append(@, validation)]]


\* What get_execution_summary returned to the caller that has just called
\* it; NoSummary once the program has moved on.
NoSummary == [total_steps |-> -1, execution_log |-> <<>>, buffer_validations |-> <<>>]

(***************************************************************************)
(* The world a coroutine step works on: the objects, the clock and the     *)
(* call's own frame.  call.exc is the exception in flight, NoExc if none.  *)
(***************************************************************************)
World == [stages |-> stages, orchestrator |-> orchestrator, buffers |-> buffers,
          clock |-> clock, call |-> [call EXCEPT !.summary = NoSummary]]

InFlight(w) == w.call.exc # NoExc

\* F applied to the value of x, with x evaluated once.
Bind(x, F(_)) == CHOOSE r \in {F(v) : v \in {x}} : TRUE

\* Statement sequencing: F runs unless an exception is in flight.
Then(w, F(_)) == Bind(w, LAMBDA v : IF InFlight(v) THEN v ELSE F(v))

\* raise e, in the method named where.  thrown and thrown_in are ghosts: the
\* first exception the call saw raised and the method that raised it.
Throw(w, where, e) ==
    [w EXCEPT !.call.exc = e,
              !.call.thrown = IF @ = NoExc THEN e ELSE @,
              !.call.thrown_in = IF @ = "" THEN where ELSE @]

\* A ghost record of what the call did: the operation, its name argument
\* (a gate, a rule, a validator) and the value passed or returned.
Event(ev, arg, val) == [ev |-> ev, arg |-> arg, val |-> val]
Note(w, ev, arg, val) == [w EXCEPT !.call.trace = Append(@, Event(ev, arg, val))]

\* logger.warning(...)
Warn(w, text) == [w EXCEPT !.call.warnings = Append(@, text)]

\* The smallest id no live buffer has.
NewId(bufs) ==
    CHOOSE i \in 1..(Cardinality(DOMAIN bufs) + 1) :
        /\ i \notin DOMAIN bufs
        /\ \A j \in 1..(i - 1) : j \in DOMAIN bufs

\* The buffers some reference still reaches.
Live(stgs, keep) ==
    ({stgs[s].input_buffer : s \in DOMAIN stgs}
        \cup {stgs[s].output_buffer : s \in DOMAIN stgs} \cup keep) \ {0}

Collect(bufs, stgs, keep) == [i \in (DOMAIN bufs \cap Live(stgs, keep)) |-> bufs[i]]

(***************************************************************************)
(* LayerInterface.                                                         *)
(***************************************************************************)
Stage(cls, layer_type, expectations, quality_gates, finalization_rules, output_validators) ==
    [cls |-> cls, layer_type |-> layer_type, expectations |-> expectations,
     input_buffer |-> 0, output_buffer |-> 0,
     quality_gates |-> quality_gates, finalization_rules |-> finalization_rules,
     output_validators |-> output_validators]

AttributeError == Exc("AttributeError", "'NoneType' object has no attribute 'output_schema'")

\* Mutant of set_input_buffer: input_buffer is an attribute of the class, so
\* every instance of the stage's class sees the buffer.
set_input_buffer_class_attribute(w, sid, buffer) ==
    [w EXCEPT !.stages = [s \in DOMAIN @ |->
                            IF @[s].cls = @[sid].cls
                            THEN [@[s] EXCEPT !.input_buffer = buffer] ELSE @[s]],
              !.call.attached = Append(@, [stage |-> sid, id |-> buffer,
                                           at |-> Len(w.call.trace)])]

\* Mutant of set_input_buffer: a stage that already has an inbound buffer
\* keeps it.
set_input_buffer_keep_first(w, sid, buffer) ==
    [w EXCEPT !.stages[sid].input_buffer = IF @ = 0 THEN buffer ELSE @,
              !.call.attached = Append(@, [stage |-> sid, id |-> buffer,
                                           at |-> Len(w.call.trace)])]

\* attached is a ghost: the stage and the buffer of every set_input_buffer of
\* the call, with the length of the trace at that point.
set_input_buffer(w, sid, buffer) ==
    [w EXCEPT !.stages[sid].input_buffer = buffer,
              !.call.attached = Append(@, [stage |-> sid, id |-> buffer,
                                           at |-> Len(w.call.trace)])]

\* Mutant of create_output_buffer: a stage that already has an output
\* buffer puts the new data into it and hands it out again.
create_output_buffer_reuse(w, sid, target_layer, data) ==
    LET self == w.stages[sid]
        old == self.output_buffer
        id == IF old # 0 THEN old ELSE NewId(w.buffers)
        target_expectations ==
            LayerExpectation("LayerExpectation", target_layer,
                             self.expectations.output_schema, "{}", <<>>)
        buffer ==
            IF old # 0
            THEN [w.buffers[old] EXCEPT !.target_layer = target_layer, !.data = data]
            ELSE DirectionBuffer(self.layer_type, target_layer, target_expectations, data,
                                 [created_at |-> w.clock,
                                  source_layer_type |-> self.layer_type])
    IN  IF self.expectations.cls = "NoneType"
        THEN Throw(w, self.layer_type \o ".create_output_buffer", AttributeError)
        ELSE [w EXCEPT !.buffers = (id :> buffer) @@ @,
                       !.clock = @ + 1,
                       !.stages[sid].output_buffer = id,
                       !.call.ret = id,
                       !.call.created = Append(@, [by |-> sid, target |-> target_layer,
                                                   data |-> data, id |-> id,
                                                   buffer |-> buffer,
                                                   at |-> Len(w.call.trace)])]

\* Mutant of create_output_buffer: source_layer and target_layer are passed
\* to DirectionBuffer the wrong way round.
create_output_buffer_swapped(w, sid, target_layer, data) ==
    LET self == w.stages[sid]
        id == NewId(w.buffers)
        target_expectations ==
            LayerExpectation("LayerExpectation", target_layer,
                             self.expectations.output_schema, "{}", <<>>)
        buffer ==
            DirectionBuffer(target_layer, self.layer_type, target_expectations, data,
                            [created_at |-> w.clock, source_layer_type |-> self.layer_type])
    IN  IF self.expectations.cls = "NoneType"
        THEN Throw(w, self.layer_type \o ".create_output_buffer", AttributeError)
        ELSE [w EXCEPT !.buffers = (id :> buffer) @@ @,
                       !.clock = @ + 1,
                       !.stages[sid].output_buffer = id,
                       !.call.ret = id,
                       !.call.created = Append(@, [by |-> sid, target |-> target_layer,
                                                   data |-> data, id |-> id,
                                                   buffer |-> buffer,
                                                   at |-> Len(w.call.trace)])]

\* Mutant of create_output_buffer: the buffer is bound to the creating
\* stage's own expectations object instead of a fresh one.
create_output_buffer_own_expectations(w, sid, target_layer, data) ==
    LET self == w.stages[sid]
        id == NewId(w.buffers)
        buffer ==
            DirectionBuffer(self.layer_type, target_layer, self.expectations, data,
                            [created_at |-> w.clock, source_layer_type |-> self.layer_type])
    IN  IF self.expectations.cls = "NoneType"
        THEN Throw(w, self.layer_type \o ".create_output_buffer", AttributeError)
        ELSE [w EXCEPT !.buffers = (id :> buffer) @@ @,
                       !.clock = @ + 1,
                       !.stages[sid].output_buffer = id,
                       !.call.ret = id,
                       !.call.created = Append(@, [by |-> sid, target |-> target_layer,
                                                   data |-> data, id |-> id,
                                                   buffer |-> buffer,
                                                   at |-> Len(w.call.trace)])]

\* Mutant of create_output_buffer: the buffer is bound to the expectations
\* the receiving stage declares.
create_output_buffer_receivers_expectations(w, sid, target_layer, data) ==
    LET self == w.stages[sid]
        id == NewId(w.buffers)
        receivers == {r \in DOMAIN w.stages : w.stages[r].layer_type = target_layer}
        target_expectations ==
            IF receivers = {} THEN NoExpectation
            ELSE w.stages[CHOOSE r \in receivers : TRUE].expectations
        buffer ==
            DirectionBuffer(self.layer_type, target_layer, target_expectations, data,
                            [created_at |-> w.clock, source_layer_type |-> self.layer_type])
    IN  IF self.expectations.cls = "NoneType"
        THEN Throw(w, self.layer_type \o ".create_output_buffer", AttributeError)
        ELSE [w EXCEPT !.buffers = (id :> buffer) @@ @,
                       !.clock = @ + 1,
                       !.stages[sid].output_buffer = id,
                       !.call.ret = id,
                       !.call.created = Append(@, [by |-> sid, target |-> target_layer,
                                                   data |-> data, id |-> id,
                                                   buffer |-> buffer,
                                                   at |-> Len(w.call.trace)])]

\* create_output_buffer: the new buffer's id is left in call.ret.  created is
\* a ghost: the receiver, the arguments and the result (the id and the
\* object as returned) of every create_output_buffer of the call that
\* returned, with the length of the trace at that point.
create_output_buffer(w, sid, target_layer, data) ==
    LET self == w.stages[sid]
        id == NewId(w.buffers)
        target_expectations ==
            LayerExpectation("LayerExpectation", target_layer,
                             self.expectations.output_schema, "{}", <<>>)
        buffer ==
            DirectionBuffer(self.layer_type, target_layer, target_expectations, data,
                            [created_at |-> w.clock, source_layer_type |-> self.layer_type])
    IN  IF self.expectations.cls = "NoneType"
        THEN Throw(w, self.layer_type \o ".create_output_buffer", AttributeError)
        ELSE [w EXCEPT !.buffers = (id :> buffer) @@ @,
                       !.clock = @ + 1,
                       !.stages[sid].output_buffer = id,
                       !.call.ret = id,
                       !.call.created = Append(@, [by |-> sid, target |-> target_layer,
                                                   data |-> data, id |-> id,
                                                   buffer |-> buffer,
                                                   at |-> Len(w.call.trace)])]

\* input_buffer.validate() as the stage calls it: the outcome goes to the
\* buffer's history and is left in call.validation (validations is a ghost:
\* every outcome the call obtained and the stage that obtained it).
validate_input_buffer(w, sid) ==
    LET id == w.stages[sid].input_buffer
        v == validate(w.buffers[id], w.clock)
    IN  IF v.raised THEN Throw(w, w.stages[sid].layer_type \o ".process", v.exc)
        ELSE [w EXCEPT !.buffers[id] = v.buf,
                       !.clock = @ + 1,
                       !.call.validation = v.validation,
                       !.call.validations =
                            Append(@, [stage |-> w.stages[sid].layer_type,
                                       outcome |-> v.validation])]

\* Mutant of check_input_buffer: the inbound buffer is not looked at.
check_input_buffer_skipped(w, sid) == w

\* Mutant of check_input_buffer: a Failed outcome is logged as a warning and
\* the stage goes on.
check_input_buffer_advisory(w, sid) ==
    IF w.stages[sid].input_buffer = 0 THEN w
    ELSE Then(Note(validate_input_buffer(w, sid), "validate", "", Unset),
              LAMBDA x : IF x.call.validation.status = FAILED
                         THEN Warn(x, "Input validation failed: "
                                      \o x.call.validation.message)
                         ELSE x)

\* Lines 229-232 and 274-277: the blocking validation of the inbound buffer.
check_input_buffer(w, sid) ==
    IF w.stages[sid].input_buffer = 0 THEN w
    ELSE Then(Note(validate_input_buffer(w, sid), "validate", "", Unset),
              LAMBDA x : IF x.call.validation.status = FAILED
                         THEN Throw(x, x.stages[sid].layer_type \o ".process",
                                    Exc("ValueError", "Input validation failed: "
                                                      \o x.call.validation.message))
                         ELSE x)

(***************************************************************************)
(* MiddleLayer.  A hook's outcome (out) is what the await of it yields:    *)
(* Ret(value) or Raise(exception).  _check_quality_gate is a stub that     *)
(* returns True; a concrete stage may override it, so its verdicts are an  *)
(* input: failing is the set of gate names the check reports as failed     *)
(* ({} for the stub).  Likewise _validate_output.                          *)
(***************************************************************************)
check_quality_gate(gate_name, data, failing) == gate_name \notin failing

\* Mutant of quality_gate_loop: a failing gate raises.
RECURSIVE quality_gate_loop_blocking(_, _, _, _)
quality_gate_loop_blocking(w, gates, result, failing) ==
    IF gates = <<>> THEN w
    ELSE LET gate == Head(gates)
             w1 == Note(w, "_check_quality_gate", gate, result)
         IN  IF ~check_quality_gate(gate, result, failing)
             THEN Throw(w1, "middle.process",
                        Exc("ValueError", "Quality gate '" \o gate \o "' failed"))
             ELSE Bind(w1, LAMBDA x :
                        quality_gate_loop_blocking(x, Tail(gates), result, failing))

RECURSIVE quality_gate_loop(_, _, _, _)
quality_gate_loop(w, gates, result, failing) ==
    IF gates = <<>> THEN w
    ELSE LET gate == Head(gates)
             w1 == Note(w, "_check_quality_gate", gate, result)
         IN  Bind(IF ~check_quality_gate(gate, result, failing)
                  THEN Warn(w1, "Quality gate '" \o gate \o "' failed")
                  ELSE w1,
                  LAMBDA x : quality_gate_loop(x, Tail(gates), result, failing))

\* Mutant of middle_process_call: the stage writes an entry of its own to
\* the execution log when it starts.
middle_process_call_logs(w, sid, input_data) ==
    LET w0 == [w EXCEPT !.orchestrator.execution_log =
                            Append(@, [timestamp |-> w.clock, event |-> "middle_start",
                                       details |-> [input_type |-> input_data.kind]]),
                        !.clock = @ + 1]
        w1 == check_input_buffer(Note(w0, "call", "middle.process", input_data), sid)
    IN  Then(w1, LAMBDA x : Note(x, "call", "execute_core_logic", input_data))

\* MiddleLayer.process up to its await of execute_core_logic (lines 228-235).
middle_process_call(w, sid, input_data) ==
    LET w1 == check_input_buffer(Note(w, "call", "middle.process", input_data), sid)
    IN  Then(w1, LAMBDA x : Note(x, "call", "execute_core_logic", input_data))

\* Mutant of middle_process_resume: the inbound buffer is validated again
\* when the hook has returned, that is, after a suspension point.
middle_process_resume_revalidates(w, sid, out, failing) ==
    IF out.raised
    THEN Throw(Note(w, "raise", "execute_core_logic", Unset), "middle.process", out.exc)
    ELSE LET result == out.value
             w1 == Note(w, "return", "execute_core_logic", result)
             w2 == check_input_buffer(w1, sid)
             w3 == Then(w2, LAMBDA x : quality_gate_loop(x, x.stages[sid].quality_gates,
                                                         result, failing))
         IN  Then(w3, LAMBDA x : [Note(x, "return", "middle.process", result)
                                  EXCEPT !.call.retval = result])

\* MiddleLayer.process from the hook's outcome on (lines 235-242); the value
\* returned is left in call.retval.
middle_process_resume(w, sid, out, failing) ==
    IF out.raised
    THEN Throw(Note(w, "raise", "execute_core_logic", Unset), "middle.process", out.exc)
    ELSE LET result == out.value
             w1 == Note(w, "return", "execute_core_logic", result)
             w2 == quality_gate_loop(w1, w.stages[sid].quality_gates, result, failing)
         IN  [Note(w2, "return", "middle.process", result) EXCEPT !.call.retval = result]

(***************************************************************************)
(* BottomLayer.  _apply_finalization_rule is a stub that returns its       *)
(* argument; a concrete stage gives the rule names a meaning.  The rules   *)
(* known here: "increment" and "double" act on ints, every other name      *)
(* (and every other payload) is the stub.                                  *)
(***************************************************************************)
apply_finalization_rule(rule, data) ==
    CASE rule = "increment" /\ data.kind = "int" -> PyInt(data.n + 1)
      [] rule = "double" /\ data.kind = "int" -> PyInt(2 * data.n)
      [] OTHER -> data

validate_output(validator, data, failing) == validator \notin failing

\* Mutant of finalization_rule_loop: every rule is applied to the data the
\* loop started with, not to the previous rule's result.
RECURSIVE finalization_rule_loop_restart(_, _, _)
finalization_rule_loop_restart(w, rules, input_data) ==
    IF rules = <<>> THEN [w EXCEPT !.call.retval = input_data]
    ELSE LET rule == Head(rules)
             data == apply_finalization_rule(rule, input_data)
         IN  IF Tail(rules) = <<>>
             THEN [Note(w, "_apply_finalization_rule", rule, data)
                   EXCEPT !.call.retval = data]
             ELSE Bind(Note(w, "_apply_finalization_rule", rule, data), LAMBDA x :
                        finalization_rule_loop_restart(x, Tail(rules), input_data))

RECURSIVE finalization_rule_loop(_, _, _)
finalization_rule_loop(w, rules, input_data) ==
    IF rules = <<>> THEN [w EXCEPT !.call.retval = input_data]
    ELSE LET rule == Head(rules)
         IN  Bind(apply_finalization_rule(rule, input_data),
                  LAMBDA data :
                    finalization_rule_loop(Note(w, "_apply_finalization_rule", rule, data),
                                           Tail(rules), data))

\* Mutant of output_validator_loop: a failing validator raises.
RECURSIVE output_validator_loop_blocking(_, _, _, _)
output_validator_loop_blocking(w, validators, result, failing) ==
    IF validators = <<>> THEN w
    ELSE LET validator == Head(validators)
             w1 == Note(w, "_validate_output", validator, result)
         IN  IF ~validate_output(validator, result, failing)
             THEN Throw(w1, "bottom.process",
                        Exc("ValueError", "Output validator '" \o validator \o "' failed"))
             ELSE Bind(w1, LAMBDA x :
                        output_validator_loop_blocking(x, Tail(validators), result, failing))

RECURSIVE output_validator_loop(_, _, _, _)
output_validator_loop(w, validators, result, failing) ==
    IF validators = <<>> THEN w
    ELSE LET validator == Head(validators)
             w1 == Note(w, "_validate_output", validator, result)
         IN  Bind(IF ~validate_output(validator, result, failing)
                  THEN Warn(w1, "Output validator '" \o validator \o "' failed")
                  ELSE w1,
                  LAMBDA x : output_validator_loop(x, Tail(validators), result, failing))

\* Mutant of bottom_process_call: the finalization rules run before the
\* inbound buffer is validated.
bottom_process_call_rules_first(w, sid, input_data) ==
    LET w1 == finalization_rule_loop(Note(w, "call", "bottom.process", input_data),
                                     w.stages[sid].finalization_rules, input_data)
        w2 == Bind(w1, LAMBDA x : check_input_buffer(x, sid))
    IN  Then(w2, LAMBDA x : Note(x, "call", "finalize_output", w1.call.retval))

\* BottomLayer.process up to its await of finalize_output (lines 273-284).
bottom_process_call(w, sid, input_data) ==
    LET w1 == check_input_buffer(Note(w, "call", "bottom.process", input_data), sid)
        w2 == Then(w1, LAMBDA x : finalization_rule_loop(
                                    x, x.stages[sid].finalization_rules, input_data))
    IN  Then(w2, LAMBDA x : Note(x, "call", "finalize_output", x.call.retval))

\* BottomLayer.process from the hook's outcome on (lines 284-291).
bottom_process_resume(w, sid, out, failing) ==
    IF out.raised
    THEN Throw(Note(w, "raise", "finalize_output", Unset), "bottom.process", out.exc)
    ELSE LET result == out.value
             w1 == Note(w, "return", "finalize_output", result)
             w2 == output_validator_loop(w1, w.stages[sid].output_validators,
                                         result, failing)
         IN  [Note(w2, "return", "bottom.process", result) EXCEPT !.call.retval = result]

(***************************************************************************)
(* TopLayer.  process is the concrete stage's, which awaits orchestrate    *)
(* and returns its value (fact_checking.py: FactCheckAuditor.process).     *)
(***************************************************************************)
top_process_call(w, sid, input_data) ==
    Note(Note(w, "call", "top.process", input_data), "call", "orchestrate", input_data)

\* Mutant of top_process_resume: process returns None whatever orchestrate
\* returned.
top_process_resume_returns_none(w, sid, out) ==
    IF out.raised
    THEN Throw(Note(w, "raise", "orchestrate", Unset), "top.process", out.exc)
    ELSE [Note(Note(w, "return", "orchestrate", out.value),
               "return", "top.process", PyNone)
          EXCEPT !.call.retval = PyNone]

top_process_resume(w, sid, out) ==
    IF out.raised
    THEN Throw(Note(w, "raise", "orchestrate", Unset), "top.process", out.exc)
    ELSE [Note(Note(w, "return", "orchestrate", out.value),
               "return", "top.process", out.value)
          EXCEPT !.call.retval = out.value]

(***************************************************************************)
(* ThreeLayerOrchestrator.                                                 *)
(***************************************************************************)
\* Mutant of log_execution: the log keeps its three latest entries only.
log_execution_capped(w, event, details) ==
    LET log_entry == [timestamp |-> w.clock, event |-> event, details |-> details]
    IN  [w EXCEPT !.orchestrator.execution_log =
                        IF Len(@) >= 3 THEN Append(Tail(@), log_entry)
                        ELSE Append(@, log_entry),
                  !.clock = @ + 1]

log_execution(w, event, details) ==
    LET log_entry == [timestamp |-> w.clock, event |-> event, details |-> details]
    IN  [w EXCEPT !.orchestrator.execution_log = Append(@, log_entry),
                  !.clock = @ + 1]

\* The frame of a call: where it stands (pc), its local variables, the
\* exception in flight or propagated (exc), and the ghost record of what it
\* did.  log_base is the length of the execution log when the call began.
Frame(kind, input, log_base) ==
    [kind |-> kind, pc |-> "idle", initial_input |-> input,
     top_result |-> Unset, middle_result |-> Unset, final_result |-> Unset,
     exc |-> NoExc, thrown |-> NoExc, thrown_in |-> "",
     validation |-> NoValidation, validations |-> <<>>, ret |-> 0, retval |-> Unset,
     trace |-> <<>>, warnings |-> <<>>, created |-> <<>>, attached |-> <<>>,
     log_base |-> log_base, summary |-> NoSummary]

\* Mutant of execute_workflow_call: an orchestrator whose last run failed
\* stays failed, the top stage is not started again.
execute_workflow_call_stays_failed(w, initial_input) ==
    LET log == w.orchestrator.execution_log
        w1 == log_execution(w, "workflow_start", [input_type |-> initial_input.kind])
        w2 == top_process_call(w1, w.orchestrator.top_layer, initial_input)
    IN  IF log # <<>> /\ log[Len(log)].event = "workflow_error"
        THEN Throw(w1, "top.process", Exc("RuntimeError", "stage is in state Failed"))
        ELSE [w2 EXCEPT !.call.pc = "orchestrate"]

\* Mutant of execute_workflow_call: top_layer.process is not awaited, the
\* middle stage is started on the unfinished result.
execute_workflow_call_no_await(w, initial_input) ==
    LET w1 == log_execution(w, "workflow_start", [input_type |-> initial_input.kind])
        w2 == top_process_call(w1, w.orchestrator.top_layer, initial_input)
        w3 == middle_process_call(w2, w.orchestrator.middle_layer, Unset)
    IN  [w3 EXCEPT !.call.pc = "orchestrate"]

\* Mutant of execute_workflow_call: the top-to-middle buffer is created over
\* the input and attached before top_layer.process is started.
execute_workflow_call_prewires(w, initial_input) ==
    LET w1 == log_execution(w, "workflow_start", [input_type |-> initial_input.kind])
        w2 == Then(w1, LAMBDA x : create_output_buffer(x, w.orchestrator.top_layer, MIDDLE,
                                                       initial_input))
        w3 == Then(w2, LAMBDA x : set_input_buffer(x, w.orchestrator.middle_layer,
                                                   x.call.ret))
        w4 == Then(w3, LAMBDA x : top_process_call(x, w.orchestrator.top_layer,
                                                   initial_input))
    IN  Then(w4, LAMBDA x : [x EXCEPT !.call.pc = "orchestrate"])

\* Lines 318-323, up to the suspension inside top_layer.process.
execute_workflow_call(w, initial_input) ==
    LET w1 == log_execution(w, "workflow_start", [input_type |-> initial_input.kind])
        w2 == top_process_call(w1, w.orchestrator.top_layer, initial_input)
    IN  [w2 EXCEPT !.call.pc = "orchestrate"]

\* Mutant of execute_workflow_top: the middle stage is called with the
\* buffer, not with the value in it.
execute_workflow_top_hands_buffer(w, out) ==
    LET self == w.orchestrator
        w1 == top_process_resume(w, self.top_layer, out)
        w2 == Then(w1, LAMBDA x : [x EXCEPT !.call.top_result = x.call.retval])
        w3 == Then(w2, LAMBDA x : create_output_buffer(x, self.top_layer, MIDDLE,
                                                       x.call.top_result))
        w4 == Then(w3, LAMBDA x : set_input_buffer(x, self.middle_layer, x.call.ret))
        w5 == Then(w4, LAMBDA x : middle_process_call(x, self.middle_layer,
                                                      x.buffers[x.call.ret]))
    IN  Then(w5, LAMBDA x : [x EXCEPT !.call.pc = "execute_core_logic"])

\* Mutant of execute_workflow_top: the buffer is created and attached only
\* when the middle stage has no inbound buffer yet.
execute_workflow_top_attach_once(w, out) ==
    LET self == w.orchestrator
        w1 == top_process_resume(w, self.top_layer, out)
        w2 == Then(w1, LAMBDA x : [x EXCEPT !.call.top_result = x.call.retval])
        w3 == Then(w2, LAMBDA x :
                    IF x.stages[self.middle_layer].input_buffer # 0 THEN x
                    ELSE create_output_buffer(x, self.top_layer, MIDDLE,
                                              x.call.top_result))
        w4 == Then(w3, LAMBDA x :
                    IF x.stages[self.middle_layer].input_buffer # 0 THEN x
                    ELSE set_input_buffer(x, self.middle_layer, x.call.ret))
        w5 == Then(w4, LAMBDA x : middle_process_call(x, self.middle_layer,
                                                      x.call.top_result))
    IN  Then(w5, LAMBDA x : [x EXCEPT !.call.pc = "execute_core_logic"])

\* Lines 323-332: from the outcome of top_layer.process to the suspension
\* inside middle_layer.process.
execute_workflow_top(w, out) ==
    LET self == w.orchestrator
        w1 == top_process_resume(w, self.top_layer, out)
        w2 == Then(w1, LAMBDA x : [x EXCEPT !.call.top_result = x.call.retval])
        w3 == Then(w2, LAMBDA x : create_output_buffer(x, self.top_layer, MIDDLE,
                                                       x.call.top_result))
        w4 == Then(w3, LAMBDA x : set_input_buffer(x, self.middle_layer, x.call.ret))
        w5 == Then(w4, LAMBDA x : middle_process_call(x, self.middle_layer,
                                                      x.call.top_result))
    IN  Then(w5, LAMBDA x : [x EXCEPT !.call.pc = "execute_core_logic"])

\* Mutant of execute_workflow_middle: the bottom stage is started on the top
\* stage's result.
execute_workflow_middle_skips_result(w, out, failing) ==
    LET self == w.orchestrator
        w1 == middle_process_resume(w, self.middle_layer, out, failing)
        w2 == Then(w1, LAMBDA x : [x EXCEPT !.call.middle_result = x.call.retval])
        w3 == Then(w2, LAMBDA x : create_output_buffer(x, self.middle_layer, BOTTOM,
                                                       x.call.middle_result))
        w4 == Then(w3, LAMBDA x : set_input_buffer(x, self.bottom_layer, x.call.ret))
        w5 == Then(w4, LAMBDA x : bottom_process_call(x, self.bottom_layer,
                                                      x.call.top_result))
    IN  Then(w5, LAMBDA x : [x EXCEPT !.call.pc = "finalize_output"])

\* Mutant of execute_workflow_middle: the middle-to-bottom buffer is attached
\* to the middle stage again instead of the bottom stage.
execute_workflow_middle_attach_to_middle(w, out, failing) ==
    LET self == w.orchestrator
        w1 == middle_process_resume(w, self.middle_layer, out, failing)
        w2 == Then(w1, LAMBDA x : [x EXCEPT !.call.middle_result = x.call.retval])
        w3 == Then(w2, LAMBDA x : create_output_buffer(x, self.middle_layer, BOTTOM,
                                                       x.call.middle_result))
        w4 == Then(w3, LAMBDA x : set_input_buffer(x, self.middle_layer, x.call.ret))
        w5 == Then(w4, LAMBDA x : bottom_process_call(x, self.bottom_layer,
                                                      x.call.middle_result))
    IN  Then(w5, LAMBDA x : [x EXCEPT !.call.pc = "finalize_output"])

\* Lines 332-341: from the outcome of middle_layer.process to the suspension
\* inside bottom_layer.process.
execute_workflow_middle(w, out, failing) ==
    LET self == w.orchestrator
        w1 == middle_process_resume(w, self.middle_layer, out, failing)
        w2 == Then(w1, LAMBDA x : [x EXCEPT !.call.middle_result = x.call.retval])
        w3 == Then(w2, LAMBDA x : create_output_buffer(x, self.middle_layer, BOTTOM,
                                                       x.call.middle_result))
        w4 == Then(w3, LAMBDA x : set_input_buffer(x, self.bottom_layer, x.call.ret))
        w5 == Then(w4, LAMBDA x : bottom_process_call(x, self.bottom_layer,
                                                      x.call.middle_result))
    IN  Then(w5, LAMBDA x : [x EXCEPT !.call.pc = "finalize_output"])

\* Lines 341-346: from the outcome of bottom_layer.process to the return.
execute_workflow_bottom(w, out, failing) ==
    LET self == w.orchestrator
        w1 == bottom_process_resume(w, self.bottom_layer, out, failing)
        w2 == Then(w1, LAMBDA x : [x EXCEPT !.call.final_result = x.call.retval])
        w3 == Then(w2, LAMBDA x : log_execution(x, "workflow_complete",
                                    [output_type |-> x.call.final_result.kind]))
    IN  Then(w3, LAMBDA x : [x EXCEPT !.call.pc = "returned"])

\* Mutant of execute_workflow_except: the handler also detaches the stages'
\* buffers before it re-raises.
execute_workflow_except_cleanup(w) ==
    Bind(w, LAMBDA x :
        IF InFlight(x)
        THEN [log_execution(x, "workflow_error", [error |-> x.call.exc.text])
              EXCEPT !.call.pc = "raised",
                     !.stages = [s \in DOMAIN @ |->
                                    [@[s] EXCEPT !.input_buffer = 0, !.output_buffer = 0]]]
        ELSE x)

\* Mutant of execute_workflow_except: the handler logs and returns, the
\* exception is swallowed.
execute_workflow_except_swallow(w) ==
    Bind(w, LAMBDA x :
        IF InFlight(x)
        THEN [log_execution(x, "workflow_error", [error |-> x.call.exc.text])
              EXCEPT !.call.pc = "returned", !.call.exc = NoExc]
        ELSE x)

\* Mutant of execute_workflow_except: the handler raises a new exception
\* that wraps the one it caught.
execute_workflow_except_wrap(w) ==
    Bind(w, LAMBDA x :
        IF InFlight(x)
        THEN [log_execution(x, "workflow_error", [error |-> x.call.exc.text])
              EXCEPT !.call.pc = "raised",
                     !.call.exc = Exc("RuntimeError", "Workflow failed: " \o x.call.exc.text)]
        ELSE x)

\* Lines 348-350: the handler of the try block, then the re-raise.
execute_workflow_except(w) ==
    Bind(w, LAMBDA x :
        IF InFlight(x)
        THEN [log_execution(x, "workflow_error", [error |-> x.call.exc.text])
              EXCEPT !.call.pc = "raised"]
        ELSE x)

\* The entries of a buffer's validation_results, each under the buffer's name.
Tagged(buffer_name, validation_results) ==
    [k \in 1..Len(validation_results) |->
        [buffer |-> buffer_name, validation |-> validation_results[k]]]

\* Mutant of collect_buffer_validations: the entries of the bottom stage's
\* buffer are named "top_to_middle" too.
collect_buffer_validations_one_name(w) ==
    LET self == w.orchestrator
        middle == w.stages[self.middle_layer].input_buffer
        bottom == w.stages[self.bottom_layer].input_buffer
    IN  (IF middle # 0
         THEN Tagged("top_to_middle", w.buffers[middle].validation_results) ELSE <<>>)
        \o (IF bottom # 0
            THEN Tagged("top_to_middle", w.buffers[bottom].validation_results) ELSE <<>>)

\* Mutant of collect_buffer_validations: the outcomes reported are those the
\* run that just ended obtained, not those of the buffers attached.
collect_buffer_validations_of_last_run(w) ==
    [k \in 1..Len(w.call.validations) |->
        [buffer |-> (IF w.call.validations[k].stage = MIDDLE THEN "top_to_middle"
                     ELSE "middle_to_bottom"),
         validation |-> w.call.validations[k].outcome]]

\* _collect_buffer_validations (lines 370-390).
collect_buffer_validations(w) ==
    LET self == w.orchestrator
        middle == w.stages[self.middle_layer].input_buffer
        bottom == w.stages[self.bottom_layer].input_buffer
    IN  (IF middle # 0
         THEN Tagged("top_to_middle", w.buffers[middle].validation_results) ELSE <<>>)
        \o (IF bottom # 0
            THEN Tagged("middle_to_bottom", w.buffers[bottom].validation_results) ELSE <<>>)

\* get_execution_summary (lines 362-368): the dict returned.
get_execution_summary(w) ==
    [total_steps |-> Len(w.orchestrator.execution_log),
     execution_log |-> w.orchestrator.execution_log,
     buffer_validations |-> collect_buffer_validations(w)]

(***************************************************************************)
(* The inputs of the model.                                                *)
(***************************************************************************)
Inputs == {PyStr(1), PyDict(1)}
HookValues == {PyInt(0), PyInt(1), BadStr}
HookError == Exc("RuntimeError", "hook failed")
HookOutcomes == {Ret(v) : v \in HookValues} \cup {Raise(HookError)}

QualityGates == <<"g1", "g2">>
FinalizationRules == <<"increment", "double">>
\* Rule names the base class's _apply_finalization_rule is all there is for.
ReviserRules == <<"preserve_original_structure", "improve_accuracy_only">>
OutputValidators == <<"v1", "v2">>
Range(seq) == {seq[i] : i \in 1..Len(seq)}

TopExpectations == LayerExpectation("LayerExpectation", TOP, "top.in", "top.out", <<"t">>)
MiddleExpectations ==
    LayerExpectation("StrictExpectation", MIDDLE, "middle.in", "middle.out", <<"m">>)
BottomExpectations ==
    LayerExpectation("FaultyExpectation", BOTTOM, "bottom.in", "bottom.out", <<"b">>)

\* No second orchestrator was built.
NoPeer == [orchestrator |-> [top_layer |-> 0, middle_layer |-> 0, bottom_layer |-> 0,
                             execution_log |-> <<>>],
           call |-> Frame("none", Unset, 0)]

(***************************************************************************)
(* The state after construction: an orchestrator over three stages, no     *)
(* buffer yet.  A stage may have been built with None for its expectations.*)
(***************************************************************************)
Init ==
    /\ \E te \in {TopExpectations, NoExpectation},
          me \in {MiddleExpectations, NoExpectation},
          rules \in {FinalizationRules, ReviserRules} :
            stages = [s \in 1..3 |->
                        CASE s = 1 -> Stage("TopLayer", TOP, te, <<>>, <<>>, <<>>)
                          [] s = 2 -> Stage("MiddleLayer", MIDDLE, me, QualityGates, <<>>, <<>>)
                          [] OTHER -> Stage("BottomLayer", BOTTOM, BottomExpectations, <<>>,
                                            rules, OutputValidators)]
    /\ orchestrator = [top_layer |-> 1, middle_layer |-> 2, bottom_layer |-> 3,
                       execution_log |-> <<>>]
    /\ buffers = [i \in {} |-> 0]
    /\ held = {}
    /\ call = Frame("none", Unset, 0)
    /\ ncalls = 0
    /\ nmanual = 0
    /\ clock = 0
    /\ peer = NoPeer

\* The step's world becomes the state; unreachable buffers leave the heap.
Commit(w) ==
    \E x \in {w} :
        /\ stages' = x.stages
        /\ orchestrator' = x.orchestrator
        /\ buffers' = Collect(x.buffers, x.stages, held)
        /\ clock' = x.clock
        /\ call' = x.call

Finished == call.pc \in {"idle", "returned", "raised"}

\* orchestrator.execute_workflow(initial_input) is called and runs to its
\* first suspension.
ExecuteWorkflow(initial_input) ==
    /\ Finished
    /\ ncalls < MaxCalls
    /\ ncalls' = ncalls + 1
    /\ LET w == [World EXCEPT !.call = Frame("execute_workflow", initial_input,
                                             Len(orchestrator.execution_log))]
       IN  Commit(execute_workflow_except(execute_workflow_call(w, initial_input)))
    /\ UNCHANGED <<peer, held, nmanual>>

\* orchestrate completes; execute_workflow runs on to its next suspension.
ResumeTop(out) ==
    /\ call.kind = "execute_workflow"
    /\ call.pc = "orchestrate"
    /\ Commit(execute_workflow_except(execute_workflow_top(World, out)))
    /\ UNCHANGED <<peer, held, ncalls, nmanual>>

\* execute_core_logic completes.
ResumeMiddle(out, failing) ==
    /\ call.kind = "execute_workflow"
    /\ call.pc = "execute_core_logic"
    /\ Commit(execute_workflow_except(execute_workflow_middle(World, out, failing)))
    /\ UNCHANGED <<peer, held, ncalls, nmanual>>

\* finalize_output completes.
ResumeBottom(out, failing) ==
    /\ call.kind = "execute_workflow"
    /\ call.pc = "finalize_output"
    /\ Commit(execute_workflow_except(execute_workflow_bottom(World, out, failing)))
    /\ UNCHANGED <<peer, held, ncalls, nmanual>>

\* orchestrator.get_execution_summary(), called at any point, a suspended run
\* included: it returns at once.
GetExecutionSummary ==
    /\ call.summary = NoSummary
    /\ call' = [call EXCEPT !.summary = get_execution_summary(World)]
    /\ UNCHANGED <<peer, stages, orchestrator, buffers, held, ncalls, nmanual, clock>>

(***************************************************************************)
(* A collaborator working on buffers directly, as the tests do: it builds  *)
(* a DirectionBuffer over an expectation of its own and calls validate.    *)
(***************************************************************************)
Directions == {<<TOP, MIDDLE>>, <<MIDDLE, BOTTOM>>}

CollaboratorBuffer(source_layer, target_layer, cls, data) ==
    DirectionBuffer(source_layer, target_layer,
                    LayerExpectation(cls, target_layer, "{}", "{}", <<>>),
                    data, [created |-> "now"])

NewBuffer(dir, cls, data) ==
    /\ Finished
    /\ Cardinality(held) < MaxHeld
    /\ LET id == NewId(buffers)
       IN  /\ buffers' = (id :> CollaboratorBuffer(dir[1], dir[2], cls, data)) @@ buffers
           /\ held' = held \cup {id}
           /\ call' = [Frame("DirectionBuffer", data, Len(orchestrator.execution_log))
                       EXCEPT !.pc = "returned", !.ret = id]
    /\ UNCHANGED <<peer, stages, orchestrator, ncalls, nmanual, clock>>

\* buffer.validate() called by the collaborator; the frame keeps the buffer's
\* id (ret) and what the call returned (validation) or raised (exc).
Validate(id) ==
    /\ Finished
    /\ nmanual < MaxManual
    /\ nmanual' = nmanual + 1
    /\ \E v \in {validate(buffers[id], clock)} :
        /\ buffers' = [buffers EXCEPT ![id] = v.buf]
        /\ call' = [Frame("validate", buffers[id].data, Len(orchestrator.execution_log))
                    EXCEPT !.pc = IF v.raised THEN "raised" ELSE "returned",
                           !.exc = v.exc, !.thrown = v.exc,
                           !.validation = v.validation, !.ret = id]
    /\ clock' = clock + 1
    /\ UNCHANGED <<peer, stages, orchestrator, held, ncalls>>

\* buffer.data = data: the collaborator replaces the payload of a buffer it
\* holds (DirectionBuffer is a plain dataclass, its fields are assignable).
Rewrites == {PyStr(1)}

SetData(id, data) ==
    /\ Finished
    /\ id \in held
    /\ buffers[id].data # data
    /\ buffers' = [buffers EXCEPT ![id].data = data]
    /\ call' = [Frame("setattr", data, Len(orchestrator.execution_log))
                EXCEPT !.pc = "returned", !.ret = id]
    /\ UNCHANGED <<peer, stages, orchestrator, held, ncalls, nmanual, clock>>

NextValidate ==
    \/ \E dir \in Directions, cls \in ExpectationClasses, data \in Payloads :
            NewBuffer(dir, cls, data)
    \/ \E id \in DOMAIN buffers : Validate(id)
    \/ \E id \in DOMAIN buffers, data \in Rewrites : SetData(id, data)

SpecValidate == Init /\ [][NextValidate]_vars

(***************************************************************************)
(* A collaborator driving one stage directly: it attaches an inbound       *)
(* buffer of its own with set_input_buffer and calls process.              *)
(***************************************************************************)
\* The inbound buffers tried: <<class of the expectation, payload>>.  They
\* validate as Passed, Passed, Failed by the predicate, Failed by an
\* exception of the predicate and Failed by an exception of the size.
AttachOptions ==
    {<<"LayerExpectation", PyDict(1)>>, <<"StrictExpectation", PyDict(1)>>,
     <<"StrictExpectation", PyStr(0)>>, <<"FaultyExpectation", PyDict(1)>>,
     <<"LayerExpectation", BadStr>>}
ProcessInputs == {PyInt(0), PyInt(1), PyStr(1)}

Upstream(layer_type) == IF layer_type = BOTTOM THEN MIDDLE ELSE TOP

AttachBuffer(sid, cls, data) ==
    /\ Finished
    /\ LET id == NewId(buffers)
           buffer == CollaboratorBuffer(Upstream(stages[sid].layer_type),
                                        stages[sid].layer_type, cls, data)
           w == [World EXCEPT !.buffers = (id :> buffer) @@ @,
                              !.call = [Frame("set_input_buffer", data,
                                              Len(orchestrator.execution_log))
                                        EXCEPT !.pc = "returned", !.ret = id]]
       IN  Commit(set_input_buffer(w, sid, id))
    /\ UNCHANGED <<peer, held, ncalls, nmanual>>

\* What the caller of process sees: the value returned, or the exception.
process_over(w) ==
    Bind(w, LAMBDA x :
        IF InFlight(x) THEN [x EXCEPT !.call.pc = "raised"]
        ELSE [x EXCEPT !.call.pc = "returned", !.call.final_result = x.call.retval])

process_suspended(w, hook) ==
    Bind(w, LAMBDA x :
        IF InFlight(x) THEN [x EXCEPT !.call.pc = "raised"]
        ELSE [x EXCEPT !.call.pc = hook])

ProcessMiddle(input_data) ==
    /\ Finished
    /\ ncalls < MaxCalls
    /\ ncalls' = ncalls + 1
    /\ LET w == [World EXCEPT !.call = Frame("middle.process", input_data,
                                             Len(orchestrator.execution_log))]
       IN  Commit(process_suspended(
                    middle_process_call(w, orchestrator.middle_layer, input_data),
                    "execute_core_logic"))
    /\ UNCHANGED <<peer, held, nmanual>>

ReturnMiddle(out, failing) ==
    /\ call.kind = "middle.process"
    /\ call.pc = "execute_core_logic"
    /\ Commit(process_over(
                middle_process_resume(World, orchestrator.middle_layer, out, failing)))
    /\ UNCHANGED <<peer, held, ncalls, nmanual>>

ProcessBottom(input_data) ==
    /\ Finished
    /\ ncalls < MaxCalls
    /\ ncalls' = ncalls + 1
    /\ LET w == [World EXCEPT !.call = Frame("bottom.process", input_data,
                                             Len(orchestrator.execution_log))]
       IN  Commit(process_suspended(
                    bottom_process_call(w, orchestrator.bottom_layer, input_data),
                    "finalize_output"))
    /\ UNCHANGED <<peer, held, nmanual>>

ReturnBottom(out, failing) ==
    /\ call.kind = "bottom.process"
    /\ call.pc = "finalize_output"
    /\ Commit(process_over(
                bottom_process_resume(World, orchestrator.bottom_layer, out, failing)))
    /\ UNCHANGED <<peer, held, ncalls, nmanual>>

(***************************************************************************)
(* A collaborator calling create_output_buffer on a stage directly, as     *)
(* test_direction_buffers does, and validating the buffers made.           *)
(***************************************************************************)
CreateInputs == {PyInt(0), PyDict(1)}

CreateOutputBuffer(sid, target_layer, data) ==
    /\ Finished
    /\ ncalls < MaxCalls
    /\ ncalls' = ncalls + 1
    /\ LET w == [World EXCEPT !.call = Frame("create_output_buffer", data,
                                             Len(orchestrator.execution_log))]
       IN  Commit(Bind(create_output_buffer(w, sid, target_layer, data), LAMBDA x :
                    IF InFlight(x) THEN [x EXCEPT !.call.pc = "raised"]
                    ELSE [x EXCEPT !.call.pc = "returned"]))
    /\ UNCHANGED <<peer, held, nmanual>>

NextBuffer ==
    \/ \E sid \in DOMAIN stages, target_layer \in LayerType, data \in CreateInputs :
            CreateOutputBuffer(sid, target_layer, data)
    \/ \E id \in DOMAIN buffers : Validate(id)

SpecBuffer == Init /\ [][NextBuffer]_vars

InitStage ==
    /\ Init
    /\ \A s \in DOMAIN stages : stages[s].expectations # NoExpectation

NextStage ==
    \/ \E sid \in {orchestrator.middle_layer, orchestrator.bottom_layer},
          opt \in AttachOptions :
            AttachBuffer(sid, opt[1], opt[2])
    \/ \E input_data \in ProcessInputs : ProcessMiddle(input_data)
    \/ \E out \in HookOutcomes, failing \in SUBSET Range(QualityGates) :
            ReturnMiddle(out, failing)
    \/ \E input_data \in ProcessInputs : ProcessBottom(input_data)
    \/ \E out \in HookOutcomes, failing \in SUBSET Range(OutputValidators) :
            ReturnBottom(out, failing)

SpecStage == InitStage /\ [][NextStage]_vars

Next ==
    \/ \E initial_input \in Inputs : ExecuteWorkflow(initial_input)
    \/ \E out \in HookOutcomes : ResumeTop(out)
    \/ \E out \in HookOutcomes, failing \in SUBSET Range(QualityGates) :
            ResumeMiddle(out, failing)
    \/ \E out \in HookOutcomes, failing \in SUBSET Range(OutputValidators) :
            ResumeBottom(out, failing)
    \/ GetExecutionSummary

Spec == Init /\ [][Next]_vars

(***************************************************************************)
(* The orchestrator with a collaborator that also re-validates, between    *)
(* runs, the buffers the stages hold, and reads the summary.               *)
(***************************************************************************)
SummaryOutcomes == {Ret(PyInt(1)), Ret(BadStr), Raise(HookError)}

NextSummary ==
    \/ ExecuteWorkflow(PyDict(1))
    \/ \E out \in SummaryOutcomes : ResumeTop(out)
    \/ \E out \in SummaryOutcomes : ResumeMiddle(out, {})
    \/ \E out \in SummaryOutcomes : ResumeBottom(out, {})
    \/ \E id \in DOMAIN buffers : Validate(id)
    \/ GetExecutionSummary

SpecSummary == Init /\ [][NextSummary]_vars

(***************************************************************************)
(* Two orchestrators, each over stage instances of its own, one            *)
(* execute_workflow call on each, the two coroutines interleaved at their  *)
(* suspension points.  All objects live on the one heap and read the one   *)
(* clock; the hooks are the base classes' (no gate, rule or validator      *)
(* fails).                                                                 *)
(***************************************************************************)
Runs == {"self", "peer"}

OrchestratorOf(who) == IF who = "self" THEN orchestrator ELSE peer.orchestrator
FrameOf(who) == IF who = "self" THEN call ELSE peer.call

WorldOf(who) ==
    [World EXCEPT !.orchestrator = OrchestratorOf(who),
                  !.call = [FrameOf(who) EXCEPT !.summary = NoSummary]]

CommitOf(who, w) ==
    \E x \in {w} :
        /\ stages' = x.stages
        /\ buffers' = Collect(x.buffers, x.stages, held)
        /\ clock' = x.clock
        /\ IF who = "self"
           THEN orchestrator' = x.orchestrator /\ call' = x.call /\ UNCHANGED peer
           ELSE /\ peer' = [orchestrator |-> x.orchestrator, call |-> x.call]
                /\ UNCHANGED <<orchestrator, call>>

StagesOf(first, middle_expectations) ==
    [s \in first..(first + 2) |->
        CASE s = first -> Stage("TopLayer", TOP, TopExpectations, <<>>, <<>>, <<>>)
          [] s = first + 1 -> Stage("MiddleLayer", MIDDLE, middle_expectations,
                                    QualityGates, <<>>, <<>>)
          [] OTHER -> Stage("BottomLayer", BOTTOM, BottomExpectations, <<>>,
                            FinalizationRules, OutputValidators)]

InitPair ==
    /\ \E me \in {MiddleExpectations, NoExpectation} :
            stages = StagesOf(1, me) @@ StagesOf(4, MiddleExpectations)
    /\ orchestrator = [top_layer |-> 1, middle_layer |-> 2, bottom_layer |-> 3,
                       execution_log |-> <<>>]
    /\ peer = [orchestrator |-> [top_layer |-> 4, middle_layer |-> 5, bottom_layer |-> 6,
                                 execution_log |-> <<>>],
               call |-> Frame("none", Unset, 0)]
    /\ buffers = [i \in {} |-> 0]
    /\ held = {}
    /\ call = Frame("none", Unset, 0)
    /\ ncalls = 0
    /\ nmanual = 0
    /\ clock = 0

PairExecuteWorkflow(who, initial_input) ==
    /\ FrameOf(who).kind = "none"
    /\ LET w == [WorldOf(who) EXCEPT !.call = Frame("execute_workflow", initial_input, 0)]
       IN  CommitOf(who, execute_workflow_except(execute_workflow_call(w, initial_input)))
    /\ UNCHANGED <<held, ncalls, nmanual>>

PairResumeTop(who, out) ==
    /\ FrameOf(who).kind = "execute_workflow"
    /\ FrameOf(who).pc = "orchestrate"
    /\ CommitOf(who, execute_workflow_except(execute_workflow_top(WorldOf(who), out)))
    /\ UNCHANGED <<held, ncalls, nmanual>>

PairResumeMiddle(who, out) ==
    /\ FrameOf(who).kind = "execute_workflow"
    /\ FrameOf(who).pc = "execute_core_logic"
    /\ CommitOf(who, execute_workflow_except(execute_workflow_middle(WorldOf(who), out, {})))
    /\ UNCHANGED <<held, ncalls, nmanual>>

PairResumeBottom(who, out) ==
    /\ FrameOf(who).kind = "execute_workflow"
    /\ FrameOf(who).pc = "finalize_output"
    /\ CommitOf(who, execute_workflow_except(execute_workflow_bottom(WorldOf(who), out, {})))
    /\ UNCHANGED <<held, ncalls, nmanual>>

PairInputs == {PyDict(1), PyStr(1)}

NextPair ==
    \E who \in Runs :
        \/ \E initial_input \in PairInputs : PairExecuteWorkflow(who, initial_input)
        \/ \E out \in SummaryOutcomes : PairResumeTop(who, out)
        \/ \E out \in SummaryOutcomes : PairResumeMiddle(who, out)
        \/ \E out \in SummaryOutcomes : PairResumeBottom(who, out)

SpecPair == InitPair /\ [][NextPair]_vars

(***************************************************************************)
(* Two orchestrators over the same three stage instances, as two           *)
(* execute_fact_check calls on one adapter build them (adapters.py lines   *)
(* 54-58 pass self.auditor, self.critic, self.reviser), one                *)
(* execute_workflow call on each, interleaved at their suspension points.  *)
(***************************************************************************)
InitShared ==
    /\ stages = StagesOf(1, MiddleExpectations)
    /\ orchestrator = [top_layer |-> 1, middle_layer |-> 2, bottom_layer |-> 3,
                       execution_log |-> <<>>]
    /\ peer = [orchestrator |-> [top_layer |-> 1, middle_layer |-> 2, bottom_layer |-> 3,
                                 execution_log |-> <<>>],
               call |-> Frame("none", Unset, 0)]
    /\ buffers = [i \in {} |-> 0]
    /\ held = {}
    /\ call = Frame("none", Unset, 0)
    /\ ncalls = 0
    /\ nmanual = 0
    /\ clock = 0

SpecShared == InitShared /\ [][NextPair]_vars

(***************************************************************************)
(* fact_checking.py: the concrete stages.  Objects of the dataclasses are  *)
(* records with their attributes; n is the length of repr(object) where    *)
(* the run serializes the object; for a CriticAnalysis, whose repr holds   *)
(* clock readings, n only says that the object is truthy.  Floats are      *)
(* counted in thousandths.                                                 *)
(* Strings are taken without quote characters, and answers of at most 100  *)
(* characters, so that answer[:100] is the answer.                         *)
(***************************************************************************)
Min(a, b) == IF a <= b THEN a ELSE b

FactCheckRequest(question, answer, context) ==
    [kind |-> "FactCheckRequest",
     n |-> 65 + Len(question) + Len(answer) + Len(context),
     question |-> question, answer |-> answer, context |-> context]

Claim(text, context, claim_type, source_sentence, importance) ==
    [text |-> text, context |-> context, claim_type |-> claim_type,
     source_sentence |-> source_sentence, importance |-> importance]

Evidence(source_url, excerpt, relevance_score, credibility_score, timestamp) ==
    [source_url |-> source_url, excerpt |-> excerpt, relevance_score |-> relevance_score,
     credibility_score |-> credibility_score, timestamp |-> timestamp]

ClaimVerification(claim, verdict, confidence, evidence, justification) ==
    [claim |-> claim, verdict |-> verdict, confidence |-> confidence,
     evidence |-> evidence, justification |-> justification]

CriticAnalysis(claims, verifications, overall_assessment, confidence_score, sources_consulted) ==
    [kind |-> "CriticAnalysis", n |-> 1,
     claims |-> claims, verifications |-> verifications,
     overall_assessment |-> overall_assessment, confidence_score |-> confidence_score,
     sources_consulted |-> sources_consulted]

\* repr of a float given in thousandths: "0.9", "0.935", "1.0".
FloatReprLen(x) == IF x % 100 = 0 THEN 3 ELSE IF x % 10 = 0 THEN 4 ELSE 5

RECURSIVE ListReprLen(_)
ListReprLen(strings) ==
    IF strings = <<>> THEN 2
    ELSE IF Len(strings) = 1 THEN 4 + Len(strings[1])
    ELSE 4 + Len(Head(strings)) + ListReprLen(Tail(strings))

RevisedResponse(original_answer, revised_answer, changes_made, revision_reasoning, quality_score) ==
    [kind |-> "RevisedResponse",
     n |-> 108 + Len(original_answer) + Len(revised_answer) + ListReprLen(changes_made)
               + Len(revision_reasoning) + FloatReprLen(quality_score),
     original_answer |-> original_answer, revised_answer |-> revised_answer,
     changes_made |-> changes_made, revision_reasoning |-> revision_reasoning,
     quality_score |-> quality_score]

\* x.name on an object without the attribute.
NoAttribute(x, name) ==
    Exc("AttributeError",
        "'" \o x.kind \o "' object has no attribute '" \o name \o "'")

\* FactCheckAuditor.orchestrate (the body of FactCheckAuditor.process).
FactCheckAuditor_orchestrate(input_data) ==
    IF "answer" \notin DOMAIN input_data THEN Raise(NoAttribute(input_data, "answer"))
    ELSE Ret(RevisedResponse(input_data.answer, input_data.answer, <<>>,
                             "Orchestration complete", 900))

extract_claims(answer, question) ==
    <<Claim("Sample claim from answer", question, "factual", answer \o "...", 800)>>

verify_claim(claim, now) ==
    ClaimVerification(claim, "accurate", 850,
                      <<Evidence("https://example.com/source1", "Supporting evidence excerpt",
                                 900, 800, now)>>,
                      "Evidence from credible sources supports this claim")

\* sum(1 for v in verifications if v.verdict == "accurate")
RECURSIVE accurate_count(_)
accurate_count(verifications) ==
    IF verifications = <<>> THEN 0
    ELSE (IF Head(verifications).verdict = "accurate" THEN 1 ELSE 0)
            + accurate_count(Tail(verifications))

\* sum(v.confidence for v in verifications)
RECURSIVE confidence_sum(_)
confidence_sum(verifications) ==
    IF verifications = <<>> THEN 0
    ELSE Head(verifications).confidence + confidence_sum(Tail(verifications))

generate_overall_assessment(verifications) ==
    LET accurate == accurate_count(verifications)
        total_count == Len(verifications)
    IN  IF total_count = 0 THEN "No claims to verify"
        ELSE IF 10 * accurate >= 9 * total_count THEN "Highly accurate response"
        ELSE IF 10 * accurate >= 7 * total_count THEN "Mostly accurate response"
        ELSE IF 10 * accurate >= 5 * total_count THEN "Partially accurate response"
        ELSE "Largely inaccurate response"

calculate_confidence_score(verifications) ==
    IF verifications = <<>> THEN 0
    ELSE confidence_sum(verifications) \div Len(verifications)

\* FactCheckCritic.execute_core_logic; now is the reading of datetime.now()
\* that _verify_claim puts on its evidence.
FactCheckCritic_execute_core_logic(input_data, now) ==
    IF "answer" \notin DOMAIN input_data THEN Raise(NoAttribute(input_data, "answer"))
    ELSE IF "question" \notin DOMAIN input_data
    THEN Raise(NoAttribute(input_data, "question"))
    ELSE LET claims == extract_claims(input_data.answer, input_data.question)
             verifications == [k \in 1..Len(claims) |-> verify_claim(claims[k], now)]
         IN  Ret(CriticAnalysis(
                    claims, verifications,
                    generate_overall_assessment(verifications),
                    calculate_confidence_score(verifications),
                    {verifications[k].evidence[j].source_url :
                        k \in 1..Len(verifications), j \in {1}}))

RECURSIVE analyze_required_changes(_)
analyze_required_changes(verifications) ==
    IF verifications = <<>> THEN <<>>
    ELSE LET verification == Head(verifications)
             change ==
                CASE verification.verdict = "inaccurate" ->
                        <<"Correct inaccurate claim: " \o verification.claim.text>>
                  [] verification.verdict = "disputed" ->
                        <<"Add nuance to disputed claim: " \o verification.claim.text>>
                  [] verification.verdict = "unsupported" ->
                        <<"Soften unsupported claim: " \o verification.claim.text>>
                  [] OTHER -> <<>>
         IN  change \o analyze_required_changes(Tail(verifications))

apply_single_revision(text, change) == text

RECURSIVE apply_revisions(_, _, _)
apply_revisions(original_answer, verifications, changes_needed) ==
    IF changes_needed = <<>> THEN original_answer
    ELSE apply_revisions(apply_single_revision(original_answer, Head(changes_needed)),
                         verifications, Tail(changes_needed))

RECURSIVE Join(_, _)
Join(sep, strings) ==
    IF strings = <<>> THEN ""
    ELSE IF Len(strings) = 1 THEN strings[1]
    ELSE Head(strings) \o sep \o Join(sep, Tail(strings))

generate_revision_reasoning(changes, assessment) ==
    IF changes = <<>> THEN "No revisions needed. " \o assessment
    ELSE "Made " \o ToString(Len(changes))
            \o " revisions based on fact-checking analysis: " \o assessment \o ". "
            \o "Changes: " \o Join(", ", changes)

calculate_quality_score(confidence_score) == Min(1000, (confidence_score * 11) \div 10)

\* FactCheckReviser.finalize_output.
FactCheckReviser_finalize_output(input_data) ==
    IF "verifications" \notin DOMAIN input_data
    THEN Raise(NoAttribute(input_data, "verifications"))
    ELSE LET changes_needed == analyze_required_changes(input_data.verifications)
             revised_answer == apply_revisions("", input_data.verifications, changes_needed)
             revision_reasoning ==
                generate_revision_reasoning(changes_needed, input_data.overall_assessment)
             quality_score == calculate_quality_score(input_data.confidence_score)
         IN  Ret(RevisedResponse("", revised_answer, changes_needed, revision_reasoning,
                                 quality_score))

\* The keys of the dicts the constructors set: FactCheckCritic's
\* processing_config, FactCheckAuditor's requirements for the two stages
\* below it.
processing_config ==
    {"claim_extraction_model", "search_strategy", "evidence_ranking", "verification_method"}
middle_layer_requirements ==
    {"claim_extraction_method", "evidence_sources", "verification_depth",
     "minimum_sources_per_claim", "confidence_threshold"}
bottom_layer_requirements ==
    {"revision_strategy", "preserve_original_style", "maintain_answer_length",
     "require_justification", "quality_threshold"}

PyTrue == [kind |-> "bool", n |-> 1]
PyFalse == [kind |-> "bool", n |-> 0]

\* validate_requirements of the stage of class cls, on a dict with the keys
\* requirements.
validate_requirements(cls, requirements) ==
    CASE cls = "FactCheckAuditor" -> {"question", "answer"} \subseteq requirements
      [] cls = "FactCheckCritic" ->
            {"claim_extraction", "web_search", "source_verification"} \subseteq processing_config
      [] OTHER -> TRUE

AuditorExpectations ==
    LayerExpectation("LayerExpectation", TOP, "auditor.in", "auditor.out",
                     <<"question_must_be_non_empty", "answer_must_be_non_empty",
                       "context_should_be_relevant">>)
CriticExpectations ==
    LayerExpectation("LayerExpectation", MIDDLE, "critic.in", "critic.out",
                     <<"claims_must_be_extractable", "evidence_must_be_credible",
                       "sources_must_be_accessible">>)
ReviserExpectations ==
    LayerExpectation("LayerExpectation", BOTTOM, "reviser.in", "reviser.out",
                     <<"revisions_must_be_justified", "style_must_be_preserved",
                       "accuracy_must_be_improved">>)

TestRequest == FactCheckRequest("Test question?", "Test answer.", "Test context")
FranceRequest ==
    FactCheckRequest("What is the capital of France?", "The capital of France is London.",
                     "Geography test")
Requests == {TestRequest, FranceRequest}

\* ThreeLayerOrchestrator(FactCheckAuditor(), FactCheckCritic(), FactCheckReviser()).
FactCheckStages ==
    [s \in 1..3 |->
        CASE s = 1 -> Stage("FactCheckAuditor", TOP, AuditorExpectations, <<>>, <<>>, <<>>)
          [] s = 2 -> Stage("FactCheckCritic", MIDDLE, CriticExpectations,
                            <<"sufficient_claims_extracted", "adequate_evidence_gathered",
                              "credible_sources_consulted">>, <<>>, <<>>)
          [] OTHER -> Stage("FactCheckReviser", BOTTOM, ReviserExpectations, <<>>,
                            <<"preserve_original_structure", "maintain_answer_length",
                              "improve_accuracy_only">>,
                            <<"grammar_check", "fact_consistency_check",
                              "style_consistency_check">>)]

InitFactCheck ==
    /\ stages = FactCheckStages
    /\ orchestrator = [top_layer |-> 1, middle_layer |-> 2, bottom_layer |-> 3,
                       execution_log |-> <<>>]
    /\ buffers = [i \in {} |-> 0]
    /\ held = {}
    /\ call = Frame("none", Unset, 0)
    /\ ncalls = 0
    /\ nmanual = 0
    /\ clock = 0
    /\ peer = NoPeer

\* The await the call is suspended in completes with what the concrete
\* stage's hook does on the argument it was called with, and the caller
\* (execute_workflow, or a process called directly) runs on.
FactCheckResume ==
    /\ call.pc \in {"orchestrate", "execute_core_logic", "finalize_output"}
    /\ LET input_data == call.trace[Len(call.trace)].val
           out == CASE call.pc = "orchestrate" -> FactCheckAuditor_orchestrate(input_data)
                    [] call.pc = "execute_core_logic" ->
                            FactCheckCritic_execute_core_logic(input_data, clock)
                    [] OTHER -> FactCheckReviser_finalize_output(input_data)
       IN  Commit(
            CASE call.kind = "execute_workflow" ->
                    execute_workflow_except(
                        CASE call.pc = "orchestrate" -> execute_workflow_top(World, out)
                          [] call.pc = "execute_core_logic" ->
                                execute_workflow_middle(World, out, {})
                          [] OTHER -> execute_workflow_bottom(World, out, {}))
              [] call.kind = "middle.process" ->
                    process_over(middle_process_resume(World, orchestrator.middle_layer,
                                                       out, {}))
              [] OTHER ->
                    process_over(bottom_process_resume(World, orchestrator.bottom_layer,
                                                       out, {})))
    /\ UNCHANGED <<peer, held, ncalls, nmanual>>

\* reviser.process(analysis) on the analysis critic.process just returned.
ChainBottom ==
    /\ call.kind = "middle.process"
    /\ call.pc = "returned"
    /\ ProcessBottom(call.final_result)

\* stage.validate_requirements(requirements), called by a collaborator.
ValidateRequirements(sid, requirements) ==
    /\ Finished
    /\ LET input == [kind |-> "dict", n |-> Cardinality(requirements), keys |-> requirements]
           w == [World EXCEPT !.call = Frame("validate_requirements", input,
                                             Len(orchestrator.execution_log))]
           result == IF validate_requirements(stages[sid].cls, requirements)
                     THEN PyTrue ELSE PyFalse
           w1 == Note(w, "call", stages[sid].layer_type \o ".validate_requirements", input)
       IN  Commit([w1 EXCEPT !.call.pc = "returned", !.call.final_result = result,
                             !.call.ret = sid])
    /\ UNCHANGED <<peer, held, ncalls, nmanual>>

NextFactCheck ==
    \/ \E request \in Requests : ExecuteWorkflow(request)
    \/ \E request \in Requests : ProcessMiddle(request)
    \/ ChainBottom
    \/ FactCheckResume
    \/ \E sid \in DOMAIN stages,
          requirements \in {middle_layer_requirements, bottom_layer_requirements} :
            ValidateRequirements(sid, requirements)
    \/ GetExecutionSummary

SpecFactCheck == InitFactCheck /\ [][NextFactCheck]_vars

(***************************************************************************)
(* adapters.py: the ADK stages.  Each hook awaits the ADK agent behind it  *)
(* (_execute_adk_agent, _execute_adk_critic, _execute_adk_reviser); the    *)
(* agent either does what the code in the repository does ("mock") or      *)
(* raises ("down").  A dict is a function on its keys.                     *)
(***************************************************************************)
\* The error of the agent behind the hook, which names the hook.
AgentError(hook) == Exc("RuntimeError", hook)

DictGet(dict, key, default) == IF key \in DOMAIN dict THEN dict[key] ELSE default

execute_adk_agent(input_data, agent) ==
    IF agent = "down" THEN Raise(AgentError("_execute_adk_agent"))
    ELSE IF "answer" \notin DOMAIN input_data THEN Raise(NoAttribute(input_data, "answer"))
    ELSE Ret([response |-> input_data.answer, changes |-> <<>>,
              metadata |-> "adk_sequential"])

\* Mutant of ADKAuditorAdapter_orchestrate: no try around the agent.
ADKAuditorAdapter_orchestrate_no_fallback(input_data, agent) ==
    LET result == execute_adk_agent(input_data, agent)
    IN  IF result.raised THEN result
        ELSE Ret(RevisedResponse(input_data.answer,
                                 DictGet(result.value, "response", input_data.answer),
                                 DictGet(result.value, "changes", <<>>),
                                 "ADK sequential agent processing", 900))

\* ADKAuditorAdapter.orchestrate: whatever is raised inside the try, by the
\* agent or by reading input_data.answer, is answered by the base class's
\* orchestrate.
ADKAuditorAdapter_orchestrate(input_data, agent) ==
    LET result == execute_adk_agent(input_data, agent)
    IN  IF result.raised \/ "answer" \notin DOMAIN input_data
        THEN FactCheckAuditor_orchestrate(input_data)
        ELSE Ret(RevisedResponse(input_data.answer,
                                 DictGet(result.value, "response", input_data.answer),
                                 DictGet(result.value, "changes", <<>>),
                                 "ADK sequential agent processing", 900))

execute_adk_critic(input_data, agent) ==
    IF agent = "down" THEN Raise(AgentError("_execute_adk_critic"))
    ELSE Ret([analysis |-> "ADK critic analysis complete", claims_found |-> 3,
              accuracy_assessment |-> "high",
              sources_checked |-> <<"source1.com", "source2.com">>])

convert_adk_critic_result(result, now) ==
    LET claims == <<Claim("ADK extracted claim", "", "factual", "", 800)>>
        sources == DictGet(result, "sources_checked", <<>>)
        evidence == [k \in 1..Len(sources) |->
                        Evidence(sources[k], "ADK evidence", 800, 800, now)]
        verifications ==
            <<ClaimVerification(claims[1], "accurate", 900, evidence,
                                "ADK verification complete")>>
    IN  CriticAnalysis(claims, verifications,
                       DictGet(result, "accuracy_assessment", "unknown"), 850, sources)

ADKCriticAdapter_execute_core_logic(input_data, agent, now) ==
    LET result == execute_adk_critic(input_data, agent)
    IN  IF result.raised THEN result
        ELSE Ret(convert_adk_critic_result(result.value, now))

execute_adk_reviser(input_data, agent) ==
    IF agent = "down" THEN Raise(AgentError("_execute_adk_reviser"))
    ELSE Ret([revised_text |-> "ADK revised text", revisions |-> <<"corrected claim 1">>,
              quality |-> 900])

ADKReviserAdapter_finalize_output(input_data, agent) ==
    LET result == execute_adk_reviser(input_data, agent)
    IN  IF result.raised THEN result
        ELSE Ret(RevisedResponse("", DictGet(result.value, "revised_text", ""),
                                 DictGet(result.value, "revisions", <<>>),
                                 "ADK reviser processing",
                                 DictGet(result.value, "quality", 850)))

\* ThreeLayerOrchestrator(ADKAuditorAdapter(config), ADKCriticAdapter(config),
\* ADKReviserAdapter(config)), as ADKAdapter.execute_fact_check builds it.
InitADK ==
    /\ stages = [s \in 1..3 |->
                    [FactCheckStages[s] EXCEPT
                        !.cls = CASE s = 1 -> "ADKAuditorAdapter"
                                  [] s = 2 -> "ADKCriticAdapter"
                                  [] OTHER -> "ADKReviserAdapter"]]
    /\ orchestrator = [top_layer |-> 1, middle_layer |-> 2, bottom_layer |-> 3,
                       execution_log |-> <<>>]
    /\ buffers = [i \in {} |-> 0]
    /\ held = {}
    /\ call = Frame("none", Unset, 0)
    /\ ncalls = 0
    /\ nmanual = 0
    /\ clock = 0
    /\ peer = NoPeer

\* The agent the suspended hook waits for answers; the hook and then
\* execute_workflow run on.  What the agent did is noted in the trace.
ADKResume(agent) ==
    /\ call.kind = "execute_workflow"
    /\ call.pc \in {"orchestrate", "execute_core_logic", "finalize_output"}
    /\ LET input_data == call.trace[Len(call.trace)].val
           answer == CASE call.pc = "orchestrate" -> execute_adk_agent(input_data, agent)
                       [] call.pc = "execute_core_logic" ->
                                execute_adk_critic(input_data, agent)
                       [] OTHER -> execute_adk_reviser(input_data, agent)
           out == CASE call.pc = "orchestrate" ->
                            ADKAuditorAdapter_orchestrate(input_data, agent)
                    [] call.pc = "execute_core_logic" ->
                            ADKCriticAdapter_execute_core_logic(input_data, agent, clock)
                    [] OTHER -> ADKReviserAdapter_finalize_output(input_data, agent)
           w == Note(World, IF answer.raised THEN "raise" ELSE "return", "agent",
                     IF answer.raised THEN Unset ELSE answer.value)
       IN  Commit(execute_workflow_except(
                    CASE call.pc = "orchestrate" -> execute_workflow_top(w, out)
                      [] call.pc = "execute_core_logic" -> execute_workflow_middle(w, out, {})
                      [] OTHER -> execute_workflow_bottom(w, out, {})))
    /\ UNCHANGED <<peer, held, ncalls, nmanual>>

NextADK ==
    \/ \E initial_input \in Requests \cup {PyInt(1)} : ExecuteWorkflow(initial_input)
    \/ \E agent \in {"mock", "down"} : ADKResume(agent)

SpecADK == InitADK /\ [][NextADK]_vars

(***************************************************************************)
(* Reading a call's frame and the execution log.                           *)
(***************************************************************************)
\* The log entries the current call appended.
CallLog ==
    SubSeq(orchestrator.execution_log, call.log_base + 1,
           Len(orchestrator.execution_log))

CallEvents(event) == {i \in 1..Len(CallLog) : CallLog[i].event = event}

\* Where in the call's trace the operation (ev, arg) was recorded.
TraceAt(ev, arg) ==
    {i \in 1..Len(call.trace) : call.trace[i].ev = ev /\ call.trace[i].arg = arg}

WorkflowCall == call.kind = "execute_workflow"
WorkflowOver == WorkflowCall /\ call.pc \in {"returned", "raised"}

(***************************************************************************)
(* C1: every execute_workflow call that is over either returned the value  *)
(* Bottom.process returned, having appended workflow_complete and no       *)
(* workflow_error and with no exception raised in it, or propagated an     *)
(* exception, having appended workflow_error and no workflow_complete.     *)
(***************************************************************************)
C1_ReturnXorLoggedError ==
    WorkflowOver =>
        \/ /\ call.pc = "returned"
           /\ call.exc = NoExc
           /\ call.thrown = NoExc
           /\ \E i \in TraceAt("return", "bottom.process") :
                    call.trace[i].val = call.final_result
           /\ CallEvents("workflow_complete") # {}
           /\ CallEvents("workflow_error") = {}
        \/ /\ call.pc = "raised"
           /\ call.exc # NoExc
           /\ CallEvents("workflow_error") # {}
           /\ CallEvents("workflow_complete") = {}

\* A call that propagated a stage's exception, after an earlier call on the
\* same orchestrator had returned normally.
C1_Witness ==
    /\ WorkflowOver
    /\ call.pc = "raised"
    /\ call.thrown = HookError
    /\ \E i \in 1..call.log_base :
            orchestrator.execution_log[i].event = "workflow_complete"

(***************************************************************************)
(* C2: when one of Top.process, Top.create_output_buffer, Middle.process,  *)
(* Middle.create_output_buffer, Bottom.process raises in execute_workflow, *)
(* the call appends exactly one workflow_error entry, its last, whose      *)
(* details carry the text of the exception, and propagates that very       *)
(* exception.                                                              *)
(***************************************************************************)
C2_ErrorLoggedAndPropagated ==
    (WorkflowCall /\ call.thrown # NoExc) =>
        /\ call.thrown_in \in {"top.process", "top.create_output_buffer",
                               "middle.process", "middle.create_output_buffer",
                               "bottom.process"}
        /\ call.pc = "raised"
        /\ call.exc = call.thrown
        /\ CallEvents("workflow_error") = {Len(CallLog)}
        /\ CallLog[Len(CallLog)].details = [error |-> call.thrown.text]

\* Middle.create_output_buffer raised after Middle.process had returned.
C2_Witness ==
    /\ WorkflowOver
    /\ call.thrown_in = "middle.create_output_buffer"
    /\ call.exc = AttributeError
    /\ TraceAt("return", "middle.process") # {}

(***************************************************************************)
(* C3: in one execute_workflow run each of Top.process, Middle.process and *)
(* Bottom.process is called at most once; Middle.process is called only    *)
(* after Top.process returned and Bottom.process only after Middle.process *)
(* returned, at every point of the run, suspended ones included.           *)
(***************************************************************************)
C3_StagesInOrder ==
    WorkflowCall =>
        /\ \A p \in {"top.process", "middle.process", "bottom.process"} :
                Cardinality(TraceAt("call", p)) <= 1
        /\ \A j \in TraceAt("call", "middle.process") :
                /\ \E i \in TraceAt("return", "top.process") : i < j
                /\ \E i \in TraceAt("call", "top.process") : i < j
        /\ \A j \in TraceAt("call", "bottom.process") :
                /\ \E i \in TraceAt("return", "middle.process") : i < j
                /\ \E i \in TraceAt("call", "middle.process") : i < j
        /\ (call.pc = "orchestrate") =>
                TraceAt("call", "middle.process") = {} /\ TraceAt("call", "bottom.process") = {}
        /\ (call.pc = "execute_core_logic") => TraceAt("call", "bottom.process") = {}

\* The run is suspended inside finalize_output: all three stages were entered.
C3_Witness ==
    /\ WorkflowCall
    /\ call.pc = "finalize_output"
    /\ TraceAt("call", "finalize_output") # {}
    /\ TraceAt("return", "top.process") # {}
    /\ TraceAt("return", "middle.process") # {}

(***************************************************************************)
(* Reading what a stage did from the call's frame.                         *)
(***************************************************************************)
\* The recorded operations named ev, in order.
TraceOf(ev) == SelectSeq(call.trace, LAMBDA e : e.ev = ev)
ArgsOf(ev) == [k \in 1..Len(TraceOf(ev)) |-> TraceOf(ev)[k].arg]

\* The outcomes the stage of kind layer_type obtained from its inbound buffer.
OutcomesOf(layer_type) ==
    {call.validations[i].outcome :
        i \in {k \in 1..Len(call.validations) : call.validations[k].stage = layer_type}}

BlockedError(outcome) == Exc("ValueError", "Input validation failed: " \o outcome.message)

(***************************************************************************)
(* C4: when the outcome Middle.process obtains from its inbound buffer is  *)
(* Failed, the call raises a ValueError carrying the outcome's message;    *)
(* execute_core_logic is not started, no quality gate is checked and       *)
(* nothing is returned.                                                    *)
(***************************************************************************)
C4_MiddleBlocksOnFailed ==
    \A outcome \in OutcomesOf(MIDDLE) :
        outcome.status = FAILED =>
            /\ call.pc = "raised"
            /\ call.exc = BlockedError(outcome)
            /\ TraceAt("call", "execute_core_logic") = {}
            /\ TraceOf("_check_quality_gate") = <<>>
            /\ TraceAt("return", "middle.process") = {}
            /\ call.final_result = Unset

\* Middle.process was called directly on a buffer its predicate rejects.
C4_Witness ==
    /\ call.kind = "middle.process"
    /\ call.pc = "raised"
    /\ call.validation.status = FAILED
    /\ call.validation.message = "Buffer validation failed"
    /\ call.exc.text = "Input validation failed: Buffer validation failed"

(***************************************************************************)
(* C5: when the inbound buffer of Middle.process validated as Passed and   *)
(* execute_core_logic returned r, every quality gate is checked, in order  *)
(* and on r, whichever of them fail, and Middle.process returns r without  *)
(* raising.                                                                *)
(***************************************************************************)
C5_GatesAdvisory ==
    \A outcome \in OutcomesOf(MIDDLE), j \in TraceAt("return", "execute_core_logic") :
        outcome.status = PASSED =>
            LET r == call.trace[j].val
                checks == TraceOf("_check_quality_gate")
            IN  /\ ArgsOf("_check_quality_gate") = stages[orchestrator.middle_layer].quality_gates
                /\ \A k \in 1..Len(checks) : checks[k].val = r
                /\ \E m \in TraceAt("return", "middle.process") : call.trace[m].val = r
                /\ call.thrown_in # "middle.process"
                /\ call.kind = "middle.process" =>
                        /\ call.pc = "returned"
                        /\ call.final_result = r
                        /\ call.thrown = NoExc
                /\ call.kind = "execute_workflow" => call.middle_result = r

\* Middle.process returned although both of its gates reported failure.
C5_Witness ==
    /\ call.kind = "middle.process"
    /\ call.pc = "returned"
    /\ call.validation.status = PASSED
    /\ call.warnings = <<"Quality gate 'g1' failed", "Quality gate 'g2' failed">>
    /\ call.final_result = PyInt(1)

(***************************************************************************)
(* C6: when the outcome Bottom.process obtains from its inbound buffer is  *)
(* Failed, it raises before any finalization rule is applied and before    *)
(* finalize_output is started; in execute_workflow that exception reaches  *)
(* the caller as it is and ends the run, workflow_error being the last     *)
(* entry logged.                                                           *)
(***************************************************************************)
C6_BottomBlocksOnFailed ==
    \A outcome \in OutcomesOf(BOTTOM) :
        outcome.status = FAILED =>
            /\ TraceOf("_apply_finalization_rule") = <<>>
            /\ TraceAt("call", "finalize_output") = {}
            /\ TraceAt("return", "bottom.process") = {}
            /\ call.pc = "raised"
            /\ call.exc = BlockedError(outcome)
            /\ call.thrown = call.exc
            /\ call.final_result = Unset
            /\ WorkflowCall =>
                    /\ CallLog[Len(CallLog)].event = "workflow_error"
                    /\ CallLog[Len(CallLog)].details.error = call.exc.text
                    /\ CallEvents("workflow_complete") = {}

\* A run ended by Bottom's blocking validation, after Top and Middle returned.
C6_Witness ==
    /\ WorkflowOver
    /\ call.thrown_in = "bottom.process"
    /\ call.validation.status = FAILED
    /\ call.validation.layer_to = BOTTOM
    /\ TraceAt("return", "middle.process") # {}

(***************************************************************************)
(* C7: the value Bottom.process hands to finalize_output is its input with *)
(* the finalization rules applied in list order, each to the result of the *)
(* one before; finalize_output is started once, after the last rule.       *)
(***************************************************************************)
RECURSIVE ApplyRules(_, _)
ApplyRules(rules, data) ==
    IF rules = <<>> THEN data
    ELSE ApplyRules(Tail(rules), apply_finalization_rule(Head(rules), data))

C7_RulesInOrderThenFinalize ==
    LET rules == stages[orchestrator.bottom_layer].finalization_rules
        applied == TraceOf("_apply_finalization_rule")
    IN  /\ Cardinality(TraceAt("call", "finalize_output")) <= 1
        /\ TraceAt("return", "bottom.process") # {} => TraceAt("call", "finalize_output") # {}
        /\ \A i \in TraceAt("call", "bottom.process"), j \in TraceAt("call", "finalize_output") :
                /\ i < j
                /\ call.trace[j].val = ApplyRules(rules, call.trace[i].val)
                /\ ArgsOf("_apply_finalization_rule") = rules
                /\ \A k \in 1..Len(applied) :
                        applied[k].val = ApplyRules(SubSeq(rules, 1, k), call.trace[i].val)
                /\ \A k \in TraceAt("_apply_finalization_rule", rules[Len(rules)]) :
                        i < k /\ k < j

\* finalize_output was started on 4 = (1 + 1) * 2 for the input 1.
C7_Witness ==
    /\ call.kind = "bottom.process"
    /\ call.initial_input = PyInt(1)
    /\ stages[orchestrator.bottom_layer].finalization_rules = <<"increment", "double">>
    /\ \E j \in TraceAt("call", "finalize_output") : call.trace[j].val = PyInt(4)

(***************************************************************************)
(* C8: when finalize_output returned r, every output validator is checked  *)
(* on r, whichever of them fail, and Bottom.process returns r without      *)
(* raising.                                                                *)
(***************************************************************************)
C8_ValidatorsAdvisory ==
    \A j \in TraceAt("return", "finalize_output") :
        LET r == call.trace[j].val
            checks == TraceOf("_validate_output")
        IN  /\ ArgsOf("_validate_output") = stages[orchestrator.bottom_layer].output_validators
            /\ \A k \in 1..Len(checks) : checks[k].val = r
            /\ \E m \in TraceAt("return", "bottom.process") : call.trace[m].val = r
            /\ call.pc = "returned"
            /\ call.final_result = r
            /\ call.thrown = NoExc

\* Bottom.process returned although both of its validators reported failure.
C8_Witness ==
    /\ call.kind = "bottom.process"
    /\ call.pc = "returned"
    /\ call.warnings = <<"Output validator 'v1' failed", "Output validator 'v2' failed">>
    /\ call.final_result = BadStr

(***************************************************************************)
(* C9: validate never lets an exception out.  For every payload and every  *)
(* expectation it returns an outcome; when the predicate or the size       *)
(* computation raised, the outcome is Failed and its details hold the text *)
(* of the exception.                                                       *)
(***************************************************************************)
\* The exception raised while the outcome of buf is computed, NoExc if none.
ComputationError(buf) ==
    IF validate_input(buf.expectations, buf.data).raised
        THEN validate_input(buf.expectations, buf.data).exc
    ELSE IF PyBool(buf.data).raised THEN PyBool(buf.data).exc
    ELSE IF PyBool(buf.data).value /\ PyStrLen(buf.data).raised THEN PyStrLen(buf.data).exc
    ELSE NoExc

C9_ValidateTotal ==
    call.kind = "validate" =>
        /\ call.pc = "returned"
        /\ call.exc = NoExc
        /\ call.validation.status \in ValidationStatus
        /\ LET e == ComputationError(buffers[call.ret])
           IN  e # NoExc =>
                    /\ call.validation.status = FAILED
                    /\ call.validation.validation_details = [error |-> e.text]
                    /\ call.validation.message = "Buffer validation error: " \o e.text

\* validate returned Failed for a payload whose __str__ raises.
C9_Witness ==
    /\ call.kind = "validate"
    /\ call.pc = "returned"
    /\ buffers[call.ret].data = BadStr
    /\ buffers[call.ret].expectations.cls = "LayerExpectation"
    /\ call.validation.validation_details = [error |-> "__str__ failed"]

(***************************************************************************)
(* C10: every validate call appends exactly one outcome to the buffer's    *)
(* validation_results, leaves the earlier entries as they were, and        *)
(* returns the outcome it appended.                                        *)
(***************************************************************************)
C10_ValidateAppendsOne ==
    [][nmanual' # nmanual =>
        /\ call'.kind = "validate"
        /\ call'.pc = "returned"
        /\ buffers'[call'.ret].validation_results =
                Append(buffers[call'.ret].validation_results, call'.validation)
        /\ \A id \in DOMAIN buffers \ {call'.ret} : buffers'[id] = buffers[id]]_vars

\* The second validate of a buffer took the error path: two entries, the
\* last one the outcome returned.
C10_Witness ==
    /\ call.kind = "validate"
    /\ Len(buffers[call.ret].validation_results) = 2
    /\ buffers[call.ret].validation_results[2] = call.validation
    /\ "error" \in DOMAIN call.validation.validation_details

(***************************************************************************)
(* C11: two consecutive validate calls on a buffer, with no assignment to  *)
(* the buffer in between, return outcomes with the same status and message *)
(* (and the same layers, size and details: only the timestamp may differ), *)
(* and the second call makes validation_results one entry longer.          *)
(***************************************************************************)
C11_ValidateIdempotent ==
    [][(nmanual' # nmanual /\ call.kind = "validate" /\ call'.ret = call.ret) =>
        /\ call'.validation.status = call.validation.status
        /\ call'.validation.message = call.validation.message
        /\ [call'.validation EXCEPT !.timestamp = 0] = [call.validation EXCEPT !.timestamp = 0]
        /\ Len(buffers'[call.ret].validation_results) =
                Len(buffers[call.ret].validation_results) + 1]_vars

\* A buffer whose predicate rejects its payload was validated twice in a
\* row: two Failed outcomes that differ in their timestamps only.
C11_Witness ==
    /\ call.kind = "validate"
    /\ LET results == buffers[call.ret].validation_results
       IN  /\ Len(results) = 2
           /\ results[1].status = FAILED
           /\ results[2].message = "Buffer validation failed"
           /\ results[1].timestamp # results[2].timestamp
           /\ results[2] = call.validation

(***************************************************************************)
(* C12: when neither the predicate nor the size computation raises, the    *)
(* outcome of validate is Passed if validate_input returned true and       *)
(* Failed otherwise, with the message that goes with the status, and its   *)
(* layer_from and layer_to are the buffer's source_layer and target_layer. *)
(***************************************************************************)
\* The validate call just made met no exception while computing its outcome.
ValidatedWithoutError ==
    /\ call.kind = "validate"
    /\ ComputationError(buffers[call.ret]) = NoExc

\* The verdict of validate for the messages passed and failed.
ValidateVerdict(passed, failed) ==
    LET buf == buffers[call.ret]
        input_valid == validate_input(buf.expectations, buf.data).value
    IN  /\ call.validation.status = (IF input_valid THEN PASSED ELSE FAILED)
        /\ call.validation.message = (IF input_valid THEN passed ELSE failed)
        /\ call.validation.validation_details = [input_valid |-> input_valid]
        /\ call.validation.layer_from = buf.source_layer
        /\ call.validation.layer_to = buf.target_layer

\* C12 as stated: the messages are "validation passed" and "validation failed".
C12_MessagesAsStated ==
    ValidatedWithoutError => ValidateVerdict("validation passed", "validation failed")

\* C12 amended: the messages are "Buffer validation passed" and "Buffer
\* validation failed".
C12_VerdictFollowsPredicate ==
    ValidatedWithoutError =>
        ValidateVerdict("Buffer validation passed", "Buffer validation failed")

\* validate returned the verdict of a predicate that rejects the payload, for
\* a buffer from middle to bottom.
C12_Witness ==
    /\ ValidatedWithoutError
    /\ buffers[call.ret].expectations.cls = "StrictExpectation"
    /\ buffers[call.ret].data = PyInt(1)
    /\ buffers[call.ret].source_layer = MIDDLE
    /\ call.validation.validation_details = [input_valid |-> FALSE]
    /\ call.validation.layer_to = BOTTOM

(***************************************************************************)
(* C13: the data_size validate records is the length of str(data) for      *)
(* every payload that is present, the empty ones ({}, "", 0) included, and *)
(* 0 when the payload is None.                                             *)
(***************************************************************************)
C13_SizeOfSerializedPayload ==
    ValidatedWithoutError =>
        LET data == buffers[call.ret].data
        IN  call.validation.data_size =
                (IF data = PyNone THEN 0 ELSE PyStrLen(data).value)

(***************************************************************************)
(* C14: for a buffer over the default LayerExpectation, whose              *)
(* validate_input returns True for everything, and a non-empty payload (a  *)
(* number other than 0, a non-empty string, a non-empty mapping), validate *)
(* returns a Passed outcome with data_size > 0.                            *)
(***************************************************************************)
NonEmptyPayload(data) == data.kind \in {"int", "str", "dict"} /\ data.n # 0

C14_NonEmptyPasses ==
    \A id \in DOMAIN buffers :
        (/\ call.kind = "validate"
         /\ call.ret = id
         /\ buffers[id].expectations.cls = "LayerExpectation"
         /\ NonEmptyPayload(buffers[id].data)) =>
            /\ call.validation.status = PASSED
            /\ call.validation.data_size > 0
            /\ call.validation.data_size = PyStrLen(buffers[id].data).value

\* validate returned for a one-entry mapping under the default expectation.
C14_Witness ==
    /\ call.kind = "validate"
    /\ buffers[call.ret].expectations.cls = "LayerExpectation"
    /\ buffers[call.ret].data = PyDict(1)
    /\ call.validation.status = PASSED
    /\ call.validation.data_size = 10

(***************************************************************************)
(* C15: the buffer create_output_buffer(target_layer, data) returns has    *)
(* the creating stage's layer_type as source_layer, target_layer as        *)
(* target_layer and data as data, whichever stage creates it for whichever *)
(* target; so have the top-to-middle and middle-to-bottom buffers of a     *)
(* run.                                                                    *)
(***************************************************************************)
C15_EnvelopeDirection ==
    \A i \in 1..Len(call.created) :
        LET c == call.created[i]
        IN  /\ c.buffer.source_layer = stages[c.by].layer_type
            /\ c.buffer.target_layer = c.target
            /\ c.buffer.data = c.data
            /\ c.id \in DOMAIN buffers
            /\ buffers[c.id].source_layer = stages[c.by].layer_type
            /\ buffers[c.id].target_layer = c.target
            /\ buffers[c.id].data = c.data

\* The bottom stage created a buffer for the top layer.
C15_Witness ==
    /\ call.kind = "create_output_buffer"
    /\ call.pc = "returned"
    /\ Len(call.created) = 1
    /\ buffers[call.ret].source_layer = BOTTOM
    /\ buffers[call.ret].target_layer = TOP
    /\ buffers[call.ret].data = PyDict(1)

(***************************************************************************)
(* C16: every buffer execute_workflow attaches to the middle or the bottom *)
(* stage carries that stage's own declared expectations, and the outcome   *)
(* the stage obtains from it is Passed exactly when the stage's own        *)
(* validate_input accepts the payload.                                     *)
(***************************************************************************)
C16_BoundToReceiversExpectation ==
    WorkflowCall =>
        \A i \in 1..Len(call.attached) :
            LET a == call.attached[i]
                own == stages[a.stage].expectations
                buf == buffers[a.id]
            IN  own # NoExpectation =>
                    /\ buf.expectations = own
                    /\ \A outcome \in OutcomesOf(stages[a.stage].layer_type) :
                            ~validate_input(own, buf.data).raised =>
                                (outcome.status = PASSED) = validate_input(own, buf.data).value

(***************************************************************************)
(* C17: the buffer create_output_buffer returns is bound to a new base     *)
(* LayerExpectation whose layer_type is the target, whose input_schema is  *)
(* the creating stage's output_schema and whose output_schema, rules,      *)
(* quality requirements and performance constraints are empty; its         *)
(* validation_results are empty, its metadata hold the creation time and   *)
(* the creating stage's layer type, and it is the creating stage's         *)
(* output_buffer.                                                          *)
(***************************************************************************)
C17_FreshEnvelope ==
    \A i \in 1..Len(call.created) :
        LET c == call.created[i]
            self == stages[c.by]
        IN  /\ c.buffer.expectations =
                    [cls |-> "LayerExpectation", layer_type |-> c.target,
                     input_schema |-> self.expectations.output_schema,
                     output_schema |-> "{}", validation_rules |-> <<>>,
                     quality_requirements |-> "{}", performance_constraints |-> "{}"]
            /\ c.buffer.validation_results = <<>>
            /\ DOMAIN c.buffer.metadata = {"created_at", "source_layer_type"}
            /\ c.buffer.metadata.source_layer_type = self.layer_type
            /\ c.buffer.metadata.created_at < clock
            /\ \A j \in 1..(i - 1) :
                    call.created[j].buffer.metadata.created_at < c.buffer.metadata.created_at
            /\ self.output_buffer = c.id
            /\ [buffers[c.id] EXCEPT !.validation_results = <<>>] = c.buffer

\* The middle stage, whose own expectations are a StrictExpectation, created
\* a buffer for the bottom layer.
C17_Witness ==
    /\ call.kind = "create_output_buffer"
    /\ call.pc = "returned"
    /\ stages[orchestrator.middle_layer].expectations.cls = "StrictExpectation"
    /\ stages[orchestrator.middle_layer].output_buffer = call.ret
    /\ buffers[call.ret].expectations.input_schema = "middle.out"
    /\ buffers[call.ret].expectations.layer_type = BOTTOM

C19_ValidatedOnce ==
    /\ \A id \in DOMAIN buffers :
            /\ Len(buffers[id].validation_results) <= 1
            /\ \A k \in 1..Len(buffers[id].validation_results) :
                    /\ buffers[id].validation_results[k].layer_to = buffers[id].target_layer
                    /\ \E sid \in DOMAIN stages :
                            /\ stages[sid].input_buffer = id
                            /\ stages[sid].layer_type = buffers[id].target_layer
    /\ WorkflowCall =>
            /\ \A j \in TraceAt("validate", "") :
                    /\ j > 1
                    /\ call.trace[j - 1].ev = "call"
                    /\ call.trace[j - 1].arg \in {"middle.process", "bottom.process"}
            /\ Len(call.validations) = Cardinality(TraceAt("validate", ""))
            /\ Len(call.validations) <= Len(call.attached)
            /\ \A layer_type \in LayerType :
                    Cardinality({k \in 1..Len(call.validations) :
                                    call.validations[k].stage = layer_type}) <= 1

\* The second run on the orchestrator, after a first one that completed, has
\* validated both of its buffers: each has one entry.
C19_Witness ==
    /\ WorkflowCall
    /\ \E i \in 1..call.log_base :
            orchestrator.execution_log[i].event = "workflow_complete"
    /\ Len(call.validations) = 2
    /\ \A sid \in {orchestrator.middle_layer, orchestrator.bottom_layer} :
            /\ stages[sid].input_buffer # 0
            /\ Len(buffers[stages[sid].input_buffer].validation_results) = 1

(***************************************************************************)
(* C20: a run of execute_workflow creates one buffer from top to middle    *)
(* once top_layer.process has returned and one from middle to bottom once  *)
(* middle_layer.process has returned (none for a transition whose          *)
(* create_output_buffer raised, which ends the run), each by the upstream  *)
(* stage and right after that stage's process returned; a run that         *)
(* returned created two.  The buffers a run attaches are the ones it       *)
(* created itself: none dates from before the run.                         *)
(***************************************************************************)
\* The buffers the current call created from the stage by for target.
CreatedFor(by, target) ==
    {i \in 1..Len(call.created) : call.created[i].by = by /\ call.created[i].target = target}

\* The current run got through the process of the stage named name and the
\* create_output_buffer that follows it.
Handed(name) ==
    /\ TraceAt("return", name \o ".process") # {}
    /\ call.thrown_in # name \o ".create_output_buffer"

C20_OwnEnvelopesPerRun ==
    WorkflowCall =>
        /\ Cardinality(CreatedFor(orchestrator.top_layer, MIDDLE)) =
                (IF Handed("top") THEN 1 ELSE 0)
        /\ Cardinality(CreatedFor(orchestrator.middle_layer, BOTTOM)) =
                (IF Handed("middle") THEN 1 ELSE 0)
        /\ \A i \in 1..Len(call.created) :
                /\ i \in CreatedFor(orchestrator.top_layer, MIDDLE)
                            \cup CreatedFor(orchestrator.middle_layer, BOTTOM)
                /\ call.trace[call.created[i].at] =
                        Event("return", stages[call.created[i].by].layer_type \o ".process",
                              call.created[i].data)
                /\ call.created[i].buffer.metadata.created_at > CallLog[1].timestamp
        /\ call.pc = "returned" => Len(call.created) = 2
        /\ Len(call.attached) = Len(call.created)
        /\ \A i \in 1..Len(call.attached) :
                /\ call.attached[i].id = call.created[i].id
                /\ call.attached[i].at = call.created[i].at
                /\ buffers[call.attached[i].id].metadata.created_at > CallLog[1].timestamp
                /\ stages[call.attached[i].stage].input_buffer = call.attached[i].id

\* The second run on the orchestrator returned: it created and attached two
\* buffers of its own, after a first run that a blocking validation had
\* ended and that had attached buffers too.
C20_Witness ==
    /\ WorkflowCall
    /\ call.pc = "returned"
    /\ call.log_base = 2
    /\ orchestrator.execution_log[2].details =
            [error |-> "Input validation failed: Buffer validation error: __str__ failed"]
    /\ Len(call.created) = 2
    /\ Len(call.attached) = 2
    /\ \A i \in 1..2 : call.created[i].buffer.metadata.created_at > CallLog[1].timestamp

(***************************************************************************)
(* C21: the execution log only grows, every step leaves the entries it     *)
(* found in place and unchanged, across runs too; and when N               *)
(* execute_workflow calls are over the log holds 2 * N entries or more:    *)
(* for each call a workflow_start followed by its workflow_complete or     *)
(* workflow_error.                                                         *)
(***************************************************************************)
\* The execute_workflow calls that are over.
CallsOver == IF Finished THEN ncalls ELSE ncalls - 1

LogPairs ==
    LET log == orchestrator.execution_log
    IN  /\ Len(log) >= 2 * CallsOver
        /\ \A n \in 1..CallsOver :
                /\ log[2 * n - 1].event = "workflow_start"
                /\ log[2 * n].event \in {"workflow_complete", "workflow_error"}
                /\ log[2 * n - 1].timestamp < log[2 * n].timestamp

LogAppendOnly ==
    /\ Len(orchestrator'.execution_log) >= Len(orchestrator.execution_log)
    /\ SubSeq(orchestrator'.execution_log, 1, Len(orchestrator.execution_log))
            = orchestrator.execution_log

C21_LogAppendOnly == [](LogPairs) /\ [][LogAppendOnly]_vars

\* Two calls are over, one that failed and one that completed after it: four
\* entries.
C21_Witness ==
    /\ WorkflowOver
    /\ ncalls = 2
    /\ Len(orchestrator.execution_log) = 4
    /\ orchestrator.execution_log[2].event = "workflow_error"
    /\ orchestrator.execution_log[4].event = "workflow_complete"

(***************************************************************************)
(* C22: get_execution_summary returns total_steps = the length of the      *)
(* execution log, the log itself, and as buffer_validations the            *)
(* validation_results of the middle stage's input_buffer, each under the   *)
(* name "top_to_middle", followed by those of the bottom stage's           *)
(* input_buffer under "middle_to_bottom", a stage without an inbound       *)
(* buffer adding nothing; the call leaves the log, the stages and the      *)
(* buffers as they were.                                                   *)
(***************************************************************************)
\* The validation_results of the inbound buffer of stage sid, <<>> when the
\* stage has none.
InboundHistory(sid) ==
    IF stages[sid].input_buffer = 0 THEN <<>>
    ELSE buffers[stages[sid].input_buffer].validation_results

SummaryAsSpecified ==
    call.summary # NoSummary =>
        LET summary == call.summary
            middle == InboundHistory(orchestrator.middle_layer)
            bottom == InboundHistory(orchestrator.bottom_layer)
        IN  /\ DOMAIN summary = {"total_steps", "execution_log", "buffer_validations"}
            /\ summary.total_steps = Len(orchestrator.execution_log)
            /\ summary.execution_log = orchestrator.execution_log
            /\ Len(summary.buffer_validations) = Len(middle) + Len(bottom)
            /\ \A k \in 1..Len(middle) :
                    summary.buffer_validations[k] =
                        [buffer |-> "top_to_middle", validation |-> middle[k]]
            /\ \A k \in 1..Len(bottom) :
                    summary.buffer_validations[Len(middle) + k] =
                        [buffer |-> "middle_to_bottom", validation |-> bottom[k]]

SummaryReadsOnly ==
    (call.summary = NoSummary /\ call'.summary # NoSummary) =>
        /\ orchestrator' = orchestrator
        /\ stages' = stages
        /\ buffers' = buffers

C22_SummaryContents == [](SummaryAsSpecified) /\ [][SummaryReadsOnly]_vars

\* A summary read after a run and a manual validate of the middle stage's
\* buffer: two entries under "top_to_middle", then one under
\* "middle_to_bottom".
C22_Witness ==
    /\ call.summary # NoSummary
    /\ call.summary.total_steps = 2
    /\ Len(call.summary.buffer_validations) = 3
    /\ call.summary.buffer_validations[2].buffer = "top_to_middle"
    /\ call.summary.buffer_validations[3].buffer = "middle_to_bottom"
    /\ call.summary.buffer_validations[3].validation.layer_to = BOTTOM

(***************************************************************************)
(* C23: when the last execute_workflow run was ended by the blocking       *)
(* validation of Middle or Bottom, get_execution_summary still returns the *)
(* whole log, whose last entry is that run's workflow_error, and           *)
(* buffer_validations holds the Failed outcome that blocked the run, under *)
(* "top_to_middle" if Middle raised and "middle_to_bottom" if Bottom did.  *)
(***************************************************************************)
\* The last run was ended by the blocking validation of the stage named name.
BlockedIn(name) ==
    /\ WorkflowOver
    /\ call.thrown_in = name \o ".process"
    /\ call.validation.status = FAILED
    /\ call.exc = BlockedError(call.validation)

C23_SummaryAfterBlockedRun ==
    \A name \in {"middle", "bottom"} :
        (BlockedIn(name) /\ call.summary # NoSummary) =>
            LET summary == call.summary
                log == orchestrator.execution_log
            IN  /\ summary.execution_log = log
                /\ summary.total_steps = Len(log)
                /\ summary.total_steps >= call.log_base + 2
                /\ summary.execution_log[Len(log)].event = "workflow_error"
                /\ summary.execution_log[Len(log)].details = [error |-> call.exc.text]
                /\ \E k \in 1..Len(summary.buffer_validations) :
                        summary.buffer_validations[k] =
                            [buffer |-> (IF name = "middle" THEN "top_to_middle"
                                         ELSE "middle_to_bottom"),
                             validation |-> call.validation]

\* The summary read after a second run that Bottom's validation blocked.
C23_Witness ==
    /\ BlockedIn("bottom")
    /\ call.summary # NoSummary
    /\ call.summary.total_steps = 4
    /\ Len(call.summary.buffer_validations) = 2
    /\ call.summary.buffer_validations[1].validation.status = PASSED
    /\ call.summary.buffer_validations[2].validation.status = FAILED
    /\ call.summary.buffer_validations[2].buffer = "middle_to_bottom"

(***************************************************************************)
(* C24: stages reused over several runs hold the buffers of the latest run *)
(* only.  set_input_buffer makes its argument the stage's input_buffer     *)
(* whatever the stage held before; after a run that returned, the input    *)
(* buffers of Middle and Bottom and the output buffers of Top and Middle   *)
(* are the two buffers that run created, and no buffer of an earlier run   *)
(* is left.                                                                *)
(***************************************************************************)
C24_BuffersOverwritten ==
    /\ \A i \in 1..Len(call.attached) :
            (\A j \in (i + 1)..Len(call.attached) :
                    call.attached[j].stage # call.attached[i].stage) =>
                stages[call.attached[i].stage].input_buffer = call.attached[i].id
    /\ (WorkflowCall /\ call.pc = "returned") =>
            LET top == stages[orchestrator.top_layer]
                middle == stages[orchestrator.middle_layer]
                bottom == stages[orchestrator.bottom_layer]
            IN  /\ Len(call.created) = 2
                /\ middle.input_buffer = call.created[1].id
                /\ top.output_buffer = call.created[1].id
                /\ bottom.input_buffer = call.created[2].id
                /\ middle.output_buffer = call.created[2].id
                /\ buffers[middle.input_buffer].data = call.top_result
                /\ buffers[bottom.input_buffer].data = call.middle_result
                /\ DOMAIN buffers = {middle.input_buffer, bottom.input_buffer}
                /\ \A id \in DOMAIN buffers :
                        buffers[id].metadata.created_at > CallLog[1].timestamp

\* A second run returned after a first one that had returned too, with other
\* results: the stages hold the second run's buffers.
C24_Witness ==
    /\ WorkflowCall
    /\ call.pc = "returned"
    /\ call.log_base = 2
    /\ orchestrator.execution_log[2].event = "workflow_complete"
    /\ call.top_result = PyInt(1)
    /\ buffers[stages[orchestrator.middle_layer].input_buffer].data = PyInt(1)
    /\ buffers[stages[orchestrator.middle_layer].input_buffer].metadata.created_at > 4

(***************************************************************************)
(* C25: two interleaved runs on distinct orchestrators.                    *)
(***************************************************************************)
\* What a hook of the run answered, read back from the run's trace.
Answered(f, hook) ==
    {i \in 1..Len(f.trace) : f.trace[i].arg = hook /\ f.trace[i].ev \in {"return", "raise"}}

Outcome(f, hook) ==
    LET i == CHOOSE i \in Answered(f, hook) : TRUE
    IN  IF f.trace[i].ev = "return" THEN Ret(f.trace[i].val) ELSE Raise(f.thrown)

\* The quality gates and output validators that answered False in the run,
\* read back from its warnings.
FailedChecks(f) ==
    {g \in Range(QualityGates) : "Quality gate '" \o g \o "' failed" \in Range(f.warnings)}
        \cup {v \in Range(OutputValidators) :
                    "Output validator '" \o v \o "' failed" \in Range(f.warnings)}

\* The same call with the same hook answers, run alone: on a heap that holds
\* the run's own three stages as constructed and nothing else.
Alone(who) ==
    LET f == FrameOf(who)
        o == OrchestratorOf(who)
        fresh == [stages |-> [s \in {o.top_layer, o.middle_layer, o.bottom_layer} |->
                                [stages[s] EXCEPT !.input_buffer = 0, !.output_buffer = 0]],
                  orchestrator |-> [o EXCEPT !.execution_log = <<>>],
                  buffers |-> [i \in {} |-> 0],
                  clock |-> 0,
                  call |-> Frame("execute_workflow", f.initial_input, 0)]
        r0 == execute_workflow_except(execute_workflow_call(fresh, f.initial_input))
        r1 == IF Answered(f, "orchestrate") = {} THEN r0
              ELSE execute_workflow_except(
                        execute_workflow_top(r0, Outcome(f, "orchestrate")))
        r2 == IF Answered(f, "execute_core_logic") = {} THEN r1
              ELSE execute_workflow_except(
                        execute_workflow_middle(r1, Outcome(f, "execute_core_logic"),
                                                FailedChecks(f)))
        r3 == IF Answered(f, "finalize_output") = {} THEN r2
              ELSE execute_workflow_except(
                        execute_workflow_bottom(r2, Outcome(f, "finalize_output"),
                                                FailedChecks(f)))
    IN  IF f.kind = "none" THEN [fresh EXCEPT !.call = f] ELSE r3

\* A buffer without its clock readings, or "none".
Untimed(w, id) ==
    IF id = 0 THEN <<"none">>
    ELSE <<"buffer",
           [w.buffers[id] EXCEPT
                !.metadata.created_at = 0,
                !.validation_results =
                    [k \in DOMAIN @ |-> [@[k] EXCEPT !.timestamp = 0]]]>>

\* What a run leaves: the call's result, the orchestrator's log and the
\* envelopes of its stages, clock readings and object identities aside.
RunView(w) ==
    LET o == w.orchestrator
    IN  [pc |-> w.call.pc, exc |-> w.call.exc, final_result |-> w.call.final_result,
         trace |-> w.call.trace, warnings |-> w.call.warnings,
         log |-> [k \in DOMAIN o.execution_log |->
                    [event |-> o.execution_log[k].event,
                     details |-> o.execution_log[k].details]],
         envelopes |-> [s \in {o.top_layer, o.middle_layer, o.bottom_layer} |->
                          [input_buffer |-> Untimed(w, w.stages[s].input_buffer),
                           output_buffer |-> Untimed(w, w.stages[s].output_buffer)]]]

\* C25: whatever the interleaving of the two calls, each call's result, its
\* orchestrator's log and its stages' envelopes are those the call leaves
\* when it runs alone with the same input and the same hook answers.
C25_RunsDoNotInterfere ==
    \A who \in Runs : RunView(WorldOf(who)) = RunView(Alone(who))

\* Both calls returned, and the peer's call started and ended between the
\* start and the end of the first.
C25_Witness ==
    /\ call.pc = "returned" /\ peer.call.pc = "returned"
    /\ orchestrator.execution_log[1].timestamp < peer.orchestrator.execution_log[1].timestamp
    /\ peer.orchestrator.execution_log[2].timestamp < orchestrator.execution_log[2].timestamp
    /\ Len(buffers[stages[3].input_buffer].validation_results) = 1
    /\ Len(buffers[stages[6].input_buffer].validation_results) = 1

(***************************************************************************)
(* C26: in a run that returned, Top.process was called on the input,       *)
(* Middle.process and execute_core_logic on the value Top.process          *)
(* returned, Bottom.process on the value Middle.process (that is,          *)
(* execute_core_logic) returned, and finalize_output on that value as the  *)
(* finalization rules leave it (unchanged under the base class's rule);    *)
(* the call returns what finalize_output, and so Bottom.process, returned, *)
(* and its last log entry is workflow_complete naming that value's type.   *)
(***************************************************************************)
\* The value recorded with the one operation (ev, arg) of the call.
TheVal(ev, arg) == call.trace[CHOOSE i \in TraceAt(ev, arg) : TRUE].val

C26_ResultIsComposition ==
    (WorkflowCall /\ call.pc = "returned") =>
        LET rules == stages[orchestrator.bottom_layer].finalization_rules
        IN  /\ \A op \in {"top.process", "orchestrate", "middle.process",
                          "execute_core_logic", "bottom.process", "finalize_output"} :
                    /\ Cardinality(TraceAt("call", op)) = 1
                    /\ Cardinality(TraceAt("return", op)) = 1
            /\ TheVal("call", "top.process") = call.initial_input
            /\ TheVal("call", "middle.process") = TheVal("return", "top.process")
            /\ TheVal("call", "execute_core_logic") = TheVal("return", "top.process")
            /\ TheVal("return", "middle.process") = TheVal("return", "execute_core_logic")
            /\ TheVal("call", "bottom.process") = TheVal("return", "middle.process")
            /\ TheVal("call", "finalize_output") =
                    ApplyRules(rules, TheVal("return", "execute_core_logic"))
            /\ (\A rule \in Range(rules) :
                    \A data \in Payloads : apply_finalization_rule(rule, data) = data) =>
                    TheVal("call", "finalize_output") = TheVal("return", "execute_core_logic")
            /\ TheVal("return", "bottom.process") = TheVal("return", "finalize_output")
            /\ call.final_result = TheVal("return", "bottom.process")
            /\ CallLog[Len(CallLog)].event = "workflow_complete"
            /\ CallLog[Len(CallLog)].details = [output_type |-> call.final_result.kind]

\* A run returned in which the three stages produced three different values,
\* none of them touched by a finalization rule.
C26_Witness ==
    /\ WorkflowCall
    /\ call.pc = "returned"
    /\ call.initial_input = PyDict(1)
    /\ TheVal("return", "top.process") = PyInt(1)
    /\ stages[orchestrator.bottom_layer].finalization_rules = ReviserRules
    /\ TheVal("return", "middle.process") = PyInt(0)
    /\ TheVal("call", "finalize_output") = PyInt(0)
    /\ call.final_result = BadStr

(***************************************************************************)
(* C30: in execute_workflow the buffer attached to Middle carries the      *)
(* value Middle.process is called with, Top's result, and the buffer       *)
(* attached to Bottom the value Bottom.process is called with, Middle's    *)
(* result; no stage is called with a buffer; and as long as the buffer     *)
(* stays attached, validated or not, its data is the value it was created  *)
(* with.                                                                   *)
(***************************************************************************)
\* The methods of the stages execute_workflow runs or they run themselves.
StageMethods ==
    {"top.process", "orchestrate", "middle.process", "execute_core_logic",
     "bottom.process", "finalize_output"}

\* The attachments of the current call to the stage sid.
AttachedTo(sid) == {i \in 1..Len(call.attached) : call.attached[i].stage = sid}

C30_PayloadIsProcessInput ==
    WorkflowCall =>
        /\ \A i \in AttachedTo(orchestrator.middle_layer) :
                /\ call.created[i].id = call.attached[i].id
                /\ call.created[i].data = call.top_result
                /\ \A j \in TraceAt("call", "middle.process") :
                        /\ j > call.attached[i].at
                        /\ call.trace[j].val = call.created[i].data
                /\ buffers[call.attached[i].id].data = call.created[i].data
        /\ \A i \in AttachedTo(orchestrator.bottom_layer) :
                /\ call.created[i].id = call.attached[i].id
                /\ call.created[i].data = call.middle_result
                /\ \A j \in TraceAt("call", "bottom.process") :
                        /\ j > call.attached[i].at
                        /\ call.trace[j].val = call.created[i].data
                /\ buffers[call.attached[i].id].data = call.created[i].data
        /\ TraceAt("call", "middle.process") # {} =>
                AttachedTo(orchestrator.middle_layer) # {}
        /\ TraceAt("call", "bottom.process") # {} =>
                AttachedTo(orchestrator.bottom_layer) # {}
        /\ \A j \in 1..Len(call.trace) :
                (call.trace[j].ev = "call" /\ call.trace[j].arg \in StageMethods) =>
                    /\ DOMAIN call.trace[j].val = DOMAIN Unset
                    /\ \A id \in DOMAIN buffers : call.trace[j].val # buffers[id]

\* A run returned: both buffers were validated by their stages, the first
\* carries Top's result and the second Middle's, a different value.
C30_Witness ==
    /\ WorkflowCall
    /\ call.pc = "returned"
    /\ call.top_result = PyInt(1)
    /\ call.middle_result = PyInt(0)
    /\ Len(buffers[stages[orchestrator.middle_layer].input_buffer].validation_results) = 1
    /\ Len(buffers[stages[orchestrator.bottom_layer].input_buffer].validation_results) = 1
    /\ buffers[stages[orchestrator.middle_layer].input_buffer].data = PyInt(1)
    /\ buffers[stages[orchestrator.bottom_layer].input_buffer].data = PyInt(0)

(***************************************************************************)
(* C27: an execute_workflow call on the orchestrator of FactCheckAuditor,  *)
(* FactCheckCritic and FactCheckReviser that is given a FactCheckRequest   *)
(* and is over returned, with a RevisedResponse whose original_answer is   *)
(* the request's answer and whose quality_score is above 0; and a summary  *)
(* read after such a call has total_steps above 0.                         *)
(***************************************************************************)
FactCheckRun ==
    /\ WorkflowOver
    /\ stages[orchestrator.top_layer].cls = "FactCheckAuditor"
    /\ call.initial_input.kind = "FactCheckRequest"

C27_FactCheckRunReturns ==
    FactCheckRun =>
        /\ call.pc = "returned"
        /\ call.exc = NoExc
        /\ call.final_result.kind = "RevisedResponse"
        /\ call.final_result.original_answer = call.initial_input.answer
        /\ call.final_result.quality_score > 0
        /\ call.summary # NoSummary => call.summary.total_steps > 0

(***************************************************************************)
(* C28: the fact-checking stages run on the request "What is the capital   *)
(* of France?" / "The capital of France is London.", by execute_workflow   *)
(* or by calling critic.process and then reviser.process on its result,    *)
(* end with a response whose revised_answer is not the request's answer,   *)
(* whose changes_made is not empty and whose quality_score is within       *)
(* [0, 1].                                                                 *)
(***************************************************************************)
\* reviser.process returned, called on the analysis of the France request.
FranceChainOver ==
    /\ call.kind = "bottom.process"
    /\ call.pc \in {"returned", "raised"}
    /\ call.initial_input.kind = "CriticAnalysis"
    /\ call.initial_input.claims[1].context = FranceRequest.question

C28_FranceAnswerCorrected ==
    ((FactCheckRun /\ call.initial_input = FranceRequest) \/ FranceChainOver) =>
        /\ call.pc = "returned"
        /\ call.final_result.kind = "RevisedResponse"
        /\ call.final_result.revised_answer # FranceRequest.answer
        /\ call.final_result.changes_made # <<>>
        /\ call.final_result.quality_score >= 0
        /\ call.final_result.quality_score <= 1000

(***************************************************************************)
(* C29: when execute_workflow attaches a buffer to a stage, that stage's    *)
(* validate_requirements was called before in the run; and                 *)
(* FactCheckCritic.validate_requirements on FactCheckAuditor's             *)
(* middle_layer_requirements returns True.                                 *)
(***************************************************************************)
C29_RequirementsConsulted ==
    /\ WorkflowCall =>
            \A i \in 1..Len(call.attached) :
                \E j \in TraceAt("call", stages[call.attached[i].stage].layer_type
                                            \o ".validate_requirements") :
                    j <= call.attached[i].at
    /\ (/\ call.kind = "validate_requirements"
        /\ call.pc = "returned"
        /\ stages[call.ret].cls = "FactCheckCritic"
        /\ call.initial_input.keys = middle_layer_requirements) =>
            call.final_result = PyTrue

(***************************************************************************)
(* C31: Top.process(input) calls orchestrate on that input and returns     *)
(* what orchestrate returns (or raises what it raises); the top stage      *)
(* obtains no validation outcome; execute_workflow never attaches a buffer *)
(* to the top stage, whose input_buffer stays None over all runs.          *)
(***************************************************************************)
C31_TopDelegatesToOrchestrate ==
    /\ stages[orchestrator.top_layer].input_buffer = 0
    /\ WorkflowCall =>
        /\ AttachedTo(orchestrator.top_layer) = {}
        /\ OutcomesOf(TOP) = {}
        /\ \A i \in TraceAt("call", "top.process") :
                /\ call.trace[i].val = call.initial_input
                /\ Len(call.trace) > i
                /\ call.trace[i + 1] = Event("call", "orchestrate", call.trace[i].val)
                /\ Len(call.trace) > i + 1 =>
                        \/ /\ call.trace[i + 2].ev = "return"
                           /\ call.trace[i + 2].arg = "orchestrate"
                           /\ call.trace[i + 3] =
                                Event("return", "top.process", call.trace[i + 2].val)
                           /\ call.top_result = call.trace[i + 2].val
                        \/ /\ call.trace[i + 2] = Event("raise", "orchestrate", Unset)
                           /\ call.thrown_in = "top.process"
                           /\ call.pc = "raised"

\* A second run got past the top stage, whose orchestrate returned 1; the
\* middle stage holds the buffer of that value, the top stage none.
C31_Witness ==
    /\ WorkflowCall
    /\ call.log_base = 2
    /\ call.top_result = PyInt(1)
    /\ TraceAt("return", "top.process") # {}
    /\ stages[orchestrator.middle_layer].input_buffer # 0
    /\ stages[orchestrator.top_layer].input_buffer = 0

(***************************************************************************)
(* C32: a Middle.process or Bottom.process call goes through its phases in *)
(* order: the call (Idle), the validation of the inbound buffer, made      *)
(* exactly when one is set, the execution (Bottom's finalization rules and *)
(* the core hook), the advisory checks (quality gates, output validators), *)
(* the return (Done).  A call that a Failed validation ended never entered *)
(* the execution; the only other way a call ends without returning is the  *)
(* core hook raising.  With no inbound buffer set no outcome is obtained,  *)
(* no buffer changes, and the core hook is called.                         *)
(***************************************************************************)
ProcessCall == call.kind \in {"middle.process", "bottom.process"}
ProcessStage ==
    IF call.kind = "middle.process" THEN orchestrator.middle_layer
    ELSE orchestrator.bottom_layer
ProcessHook == IF call.kind = "middle.process" THEN "execute_core_logic" ELSE "finalize_output"

\* The phase an operation recorded in the trace belongs to.
PhaseOf(e) ==
    CASE e.ev = "call" /\ e.arg = call.kind -> 0
      [] e.ev = "validate" -> 1
      [] e.ev = "_apply_finalization_rule" -> 2
      [] e.ev \in {"call", "return", "raise"} /\ e.arg = ProcessHook -> 2
      [] e.ev \in {"_check_quality_gate", "_validate_output"} -> 3
      [] e.ev = "return" /\ e.arg = call.kind -> 4
      [] OTHER -> 5

PhasesOf(trace) == {PhaseOf(trace[i]) : i \in 1..Len(trace)}

ProcessPhases ==
    ProcessCall =>
        LET trace == call.trace
            set == stages[ProcessStage].input_buffer # 0
            advisory == Len(stages[ProcessStage].quality_gates)
                            + Len(stages[ProcessStage].output_validators) > 0
        IN  /\ trace # <<>>
            /\ PhaseOf(trace[1]) = 0
            /\ \A i \in 1..Len(trace), j \in 1..Len(trace) :
                    i < j => PhaseOf(trace[i]) <= PhaseOf(trace[j])
            /\ 5 \notin PhasesOf(trace)
            /\ Cardinality({i \in 1..Len(trace) : PhaseOf(trace[i]) \in {0, 1, 4}})
                    = Cardinality(PhasesOf(trace) \cap {0, 1, 4})
            /\ (1 \in PhasesOf(trace)) = set
            /\ (Len(call.validations) = 1) = set
            /\ Len(call.validations) <= 1
            /\ (set /\ call.validation.status = FAILED) => 2 \notin PhasesOf(trace)
            /\ call.pc = ProcessHook => PhasesOf(trace) = {0, 2} \cup (IF set THEN {1} ELSE {})
            /\ call.pc = "returned" =>
                    PhasesOf(trace) = {0, 2, 4} \cup (IF set THEN {1} ELSE {})
                                        \cup (IF advisory THEN {3} ELSE {})
            /\ call.pc = "raised" =>
                    \/ /\ set
                       /\ call.validation.status = FAILED
                       /\ call.exc = BlockedError(call.validation)
                       /\ PhasesOf(trace) = {0, 1}
                    \/ /\ set => call.validation.status = PASSED
                       /\ trace[Len(trace)] = Event("raise", ProcessHook, Unset)
                       /\ PhasesOf(trace) = {0, 2} \cup (IF set THEN {1} ELSE {})
            /\ ~set =>
                    /\ call.validations = <<>>
                    /\ call.validation = NoValidation
                    /\ TraceAt("call", ProcessHook) # {}

\* A process call on a stage without inbound buffer leaves every buffer as
\* it is.
ProcessWithoutBufferRecordsNothing ==
    (/\ call' # call
     /\ call'.kind \in {"middle.process", "bottom.process"}
     /\ stages[IF call'.kind = "middle.process" THEN orchestrator.middle_layer
               ELSE orchestrator.bottom_layer].input_buffer = 0) =>
        buffers' = buffers

C32_ProcessPhases == [](ProcessPhases) /\ [][ProcessWithoutBufferRecordsNothing]_vars

\* Bottom.process returned on a stage without inbound buffer while the
\* middle stage holds a buffer: the hook ran and no outcome was recorded.
C32_Witness ==
    /\ call.kind = "bottom.process"
    /\ call.pc = "returned"
    /\ stages[orchestrator.bottom_layer].input_buffer = 0
    /\ stages[orchestrator.middle_layer].input_buffer # 0
    /\ TraceAt("return", "finalize_output") # {}
    /\ TraceOf("_validate_output") # <<>>
    /\ \A id \in DOMAIN buffers : buffers[id].validation_results = <<>>

(***************************************************************************)
(* C33: an execute_workflow call on an orchestrator and stages that went   *)
(* through an earlier run, a failed one included, goes as the same call    *)
(* goes on fresh instances: the same operations, the same outcome and the  *)
(* same log entries of its own at every point; and once it returned, the   *)
(* same result, the same envelopes and the entries workflow_start,         *)
(* workflow_complete.  The earlier run shows in the log entries before     *)
(* them and nowhere else.                                                  *)
(***************************************************************************)
C33_NoPositionAcrossRuns ==
    (WorkflowCall /\ call.log_base > 0) =>
        LET here == [RunView(World) EXCEPT !.log = SubSeq(@, call.log_base + 1, Len(@))]
            fresh == RunView(Alone("self"))
        IN  /\ [here EXCEPT !.envelopes = <<>>] = [fresh EXCEPT !.envelopes = <<>>]
            /\ call.pc = "returned" =>
                    /\ here = fresh
                    /\ CallLog[Len(CallLog)].event = "workflow_complete"
                    /\ Len(CallLog) = 2
                    /\ call.exc = NoExc /\ call.thrown = NoExc

\* The first run was blocked at the bottom stage, after both buffers had
\* been attached; the second run, on the same instances, returned.
C33_Witness ==
    /\ WorkflowCall
    /\ call.pc = "returned"
    /\ call.log_base = 2
    /\ orchestrator.execution_log[2].event = "workflow_error"
    /\ orchestrator.execution_log[2].details.error
            = "Input validation failed: Buffer validation error: __str__ failed"
    /\ call.final_result = PyInt(1)

(***************************************************************************)
(* C34: ADKAuditorAdapter.orchestrate never propagates an error raised     *)
(* while executing the ADK agent.  Whenever the agent behind orchestrate   *)
(* raised, the hook answered what the base FactCheckAuditor.orchestrate    *)
(* answers for the same input; for a request (an input with an answer)     *)
(* that is a value, Middle.process is called with it, and the agent's      *)
(* error is neither the error of the run nor logged as workflow_error.     *)
(***************************************************************************)
AgentRaisedAt(j) ==
    /\ j \in 2..Len(call.trace)
    /\ call.trace[j].ev = "raise" /\ call.trace[j].arg = "agent"
    /\ call.trace[j - 1] = [ev |-> "call", arg |-> "orchestrate", val |-> call.initial_input]

C34_AgentErrorFallsBack ==
    \A j \in 1..Len(call.trace) :
        AgentRaisedAt(j) =>
            LET base == FactCheckAuditor_orchestrate(call.initial_input)
            IN  /\ Len(call.trace) > j
                /\ IF base.raised
                   THEN call.trace[j + 1] = [ev |-> "raise", arg |-> "orchestrate", val |-> Unset]
                        /\ call.thrown = base.exc
                   ELSE /\ call.trace[j + 1] =
                                [ev |-> "return", arg |-> "orchestrate", val |-> base.value]
                        /\ call.top_result = base.value
                        /\ \E k \in (j + 2)..Len(call.trace) :
                                call.trace[k] = [ev |-> "call", arg |-> "middle.process",
                                                 val |-> base.value]
                        /\ call.thrown_in # "top.process"
                        /\ call.thrown # AgentError("_execute_adk_agent")
                        /\ \A k \in (call.log_base + 1)..Len(CallLog) :
                                CallLog[k].event = "workflow_error" =>
                                    CallLog[k].details.error # AgentError("_execute_adk_agent").text

C34_Witness ==
    /\ call.kind = "execute_workflow" /\ call.pc = "returned"
    /\ call.initial_input \in Requests
    /\ \E j \in 1..Len(call.trace) : AgentRaisedAt(j)
    /\ CallLog[Len(CallLog)].event = "workflow_complete"

(***************************************************************************)
(* C35: inside execute_workflow a stage is blocked if and only if          *)
(* computing the validation outcome raised.  Every outcome a run obtains   *)
(* for a payload whose truth value and size are computed without an error  *)
(* is Passed, whatever expectations the stages declare; an error of the    *)
(* computation is recorded as a Failed outcome, the stage's hook is not    *)
(* called, and the run ends with the validation error and a                *)
(* workflow_error entry carrying its message.                              *)
(***************************************************************************)
\* The hook of the stage whose process validates.
HookOf(layer_type) == IF layer_type = MIDDLE THEN "execute_core_logic" ELSE "finalize_output"

\* The buffer, as created, that the stage of the kind validated in the run.
ValidatedBuffers(layer_type) ==
    {call.created[k].buffer : k \in {j \in 1..Len(call.created) :
                                        call.created[j].target = layer_type}}

C35_BlockedIffComputationRaised ==
    WorkflowCall =>
        \A i \in 1..Len(call.validations) :
            LET v == call.validations[i]
                blocked == /\ call.pc = "raised"
                           /\ call.exc = BlockedError(v.outcome)
                           /\ TraceAt("call", HookOf(v.stage)) = {}
            IN  \A buf \in ValidatedBuffers(v.stage) :
                    /\ blocked <=> (ComputationError(buf) # NoExc)
                    /\ ComputationError(buf) = NoExc =>
                            /\ v.outcome.status = PASSED
                            /\ v.outcome.validation_details = [input_valid |-> TRUE]
                            /\ TraceAt("call", HookOf(v.stage)) # {}
                    /\ ComputationError(buf) # NoExc =>
                            /\ v.outcome.status = FAILED
                            /\ i = Len(call.validations)
                            /\ call.thrown = BlockedError(v.outcome)
                            /\ CallLog[Len(CallLog)].event = "workflow_error"
                            /\ CallLog[Len(CallLog)].details =
                                    [error |-> BlockedError(v.outcome).text]

\* Middle declares an expectation whose validate_input rejects the payload
\* Top hands over, the payload passes all the same, and Bottom is blocked by
\* a payload whose serialization raises.
C35_Witness ==
    /\ WorkflowCall /\ call.pc = "raised"
    /\ stages[2].expectations = MiddleExpectations
    /\ Len(call.validations) = 2
    /\ ~validate_input(MiddleExpectations, call.top_result).value
    /\ call.validations[1].outcome.status = PASSED
    /\ call.validations[2].outcome.status = FAILED
    /\ call.middle_result = BadStr

(***************************************************************************)
(* C36: a failing run leaves downstream wiring untouched.  A run in which  *)
(* Top.process raised has created no buffer and called neither             *)
(* Middle.process nor Bottom.process, and no step of it, from the call to  *)
(* the raise, changed an inbound or outbound buffer of any stage (which    *)
(* object it is, and what the object holds).  A run in which               *)
(* Middle.process raised, blocked by validation or from its hook, has not  *)
(* called Bottom.process, and no step of it changed Middle's outbound or   *)
(* Bottom's inbound buffer.                                                *)
(***************************************************************************)
\* A reference of a stage: the object it names and what the object holds.
Wired(id) == IF id = 0 THEN <<0>> ELSE <<id, buffers[id]>>
Inbound(s) == Wired(stages[s].input_buffer)
Outbound(s) == Wired(stages[s].output_buffer)

\* The run is inside Top.process, or has ended by Top.process raising.
InTop == WorkflowCall /\ (call.pc = "orchestrate"
                            \/ (call.pc = "raised" /\ call.thrown_in = "top.process"))
\* The run is inside Middle.process, or has ended by Middle.process raising.
InMiddle == WorkflowCall /\ (call.pc = "execute_core_logic"
                                \/ (call.pc = "raised" /\ call.thrown_in = "middle.process"))

FailedRunCalledNothingDownstream ==
    /\ InTop => /\ call.created = <<>> /\ call.attached = <<>>
                /\ TraceAt("call", "middle.process") = {}
                /\ TraceAt("call", "bottom.process") = {}
    /\ InMiddle => /\ Len(call.created) = 1 /\ Len(call.attached) = 1
                   /\ TraceAt("call", "bottom.process") = {}

FailedRunKeepsWiring ==
    /\ InTop' => /\ Inbound(2)' = Inbound(2) /\ Inbound(3)' = Inbound(3)
                 /\ \A s \in 1..3 : Outbound(s)' = Outbound(s)
    /\ InMiddle' => /\ Outbound(2)' = Outbound(2)
                    /\ Inbound(3)' = Inbound(3)

C36_FailingRunKeepsDownstream ==
    [](FailedRunCalledNothingDownstream) /\ [][FailedRunKeepsWiring]_vars

\* A second run ended by Top.process raising (and, for Middle, by a blocked
\* validation) while the stages still hold the buffers of an earlier run
\* that returned.
C36_Witness ==
    /\ WorkflowCall /\ call.pc = "raised" /\ call.log_base > 0
    /\ call.thrown_in = "top.process"
    /\ stages[2].input_buffer # 0 /\ stages[3].input_buffer # 0
    /\ buffers[stages[3].input_buffer].validation_results # <<>>
    /\ stages[1].output_buffer # 0 /\ stages[2].output_buffer # 0

(***************************************************************************)
(* C37: buffer_validations reflects the buffers currently attached, not    *)
(* the run that just ended.  A summary read after a run that failed in Top *)
(* reports, under both names, exactly what was attached when the run       *)
(* started: outcomes older than the run, none of them the run's own.       *)
(* After a run that failed in Middle that holds for "middle_to_bottom",    *)
(* while "top_to_middle" holds the run's own outcome.  With automatic      *)
(* validation only, the log has two entries per finished run while         *)
(* buffer_validations never holds more than one entry per buffer name.     *)
(***************************************************************************)
\* What the buffers attached now hold, under the summary's names.
Attached(name) ==
    Tagged(name, InboundHistory(IF name = "top_to_middle" THEN orchestrator.middle_layer
                                ELSE orchestrator.bottom_layer))

BufferNames == {"top_to_middle", "middle_to_bottom"}

\* When the current run was started: the time of its workflow_start entry.
RunStart == CallLog[1].timestamp

OlderThanRun(entries) ==
    \A k \in 1..Len(entries) : entries[k].validation.timestamp < RunStart

SummaryOfAttached ==
    /\ \A name \in BufferNames : Len(Attached(name)) <= 1
    /\ Finished => Len(orchestrator.execution_log) = 2 * ncalls
    /\ call.summary # NoSummary =>
            /\ call.summary.buffer_validations =
                    Attached("top_to_middle") \o Attached("middle_to_bottom")
            /\ call.summary.total_steps = Len(orchestrator.execution_log)
    /\ (WorkflowCall /\ call.pc = "raised" /\ call.thrown_in = "top.process") =>
            /\ call.validations = <<>>
            /\ OlderThanRun(Attached("top_to_middle"))
            /\ OlderThanRun(Attached("middle_to_bottom"))
    /\ (WorkflowCall /\ call.pc = "raised" /\ call.thrown_in = "middle.process") =>
            /\ Len(call.validations) = 1
            /\ Attached("top_to_middle") =
                    Tagged("top_to_middle", <<call.validations[1].outcome>>)
            /\ OlderThanRun(Attached("middle_to_bottom"))

AttachedSurvivesFailure ==
    /\ InTop' => \A name \in BufferNames : Attached(name)' = Attached(name)
    /\ InMiddle' => Attached("middle_to_bottom")' = Attached("middle_to_bottom")

C37_SummaryReflectsAttached == [](SummaryOfAttached) /\ [][AttachedSurvivesFailure]_vars

\* The summary read after a second run that failed in Top: four log entries,
\* and both outcomes of the first run.
C37_Witness ==
    /\ WorkflowCall /\ call.pc = "raised" /\ call.thrown_in = "top.process"
    /\ call.summary # NoSummary
    /\ call.summary.total_steps = 4
    /\ Len(call.summary.buffer_validations) = 2
    /\ call.summary.buffer_validations[1].buffer = "top_to_middle"
    /\ call.summary.buffer_validations[2].buffer = "middle_to_bottom"
    /\ call.summary.buffer_validations[2].validation.timestamp < RunStart

(***************************************************************************)
(* C38: every execute_workflow call appends exactly two log entries:       *)
(* workflow_start when it begins, before any stage has produced anything,  *)
(* and exactly one of workflow_complete (the call returned) or             *)
(* workflow_error (the call raised) when it ends.  The steps in between,   *)
(* where the stages run, and get_execution_summary append nothing.  After  *)
(* N sequential calls the log has exactly 2 * N entries, start entries at  *)
(* the odd and terminal entries at the even positions.                     *)
(***************************************************************************)
TerminalEvents == {"workflow_complete", "workflow_error"}

TwoEntriesPerCall ==
    LET log == orchestrator.execution_log
    IN  /\ Len(log) = IF Finished THEN 2 * ncalls ELSE 2 * ncalls - 1
        /\ \A k \in 1..Len(log) :
                IF k % 2 = 1 THEN log[k].event = "workflow_start"
                ELSE log[k].event \in TerminalEvents
        /\ WorkflowCall =>
                /\ call.log_base = 2 * (ncalls - 1)
                /\ CallLog[1] = [timestamp |-> CallLog[1].timestamp,
                                 event |-> "workflow_start",
                                 details |-> [input_type |-> call.initial_input.kind]]
                /\ \A k \in 1..Len(call.created) :
                        CallLog[1].timestamp < call.created[k].buffer.metadata.created_at
                /\ \A k \in 1..Len(call.validations) :
                        CallLog[1].timestamp < call.validations[k].outcome.timestamp
                /\ call.pc = "returned" => CallLog[2].event = "workflow_complete"
                /\ call.pc = "raised" => CallLog[2].event = "workflow_error"
                /\ Finished =>
                        /\ \A k \in 1..Len(call.validations) :
                                call.validations[k].outcome.timestamp < CallLog[2].timestamp
                        /\ CallLog[2].timestamp = clock - 1

OnlyCallsAppend ==
    LET log == orchestrator.execution_log
        appended == SubSeq(orchestrator'.execution_log, Len(log) + 1,
                           Len(orchestrator'.execution_log))
        begins == ncalls' = ncalls + 1
    IN  /\ SubSeq(orchestrator'.execution_log, 1, Len(log)) = log
        /\ Len(appended) = (IF begins THEN 1 ELSE 0)
                            + (IF Finished' /\ (begins \/ ~Finished) THEN 1 ELSE 0)
        /\ call'.summary # NoSummary => appended = <<>>

C38_TwoLogEntriesPerCall == [](TwoEntriesPerCall) /\ [][OnlyCallsAppend]_vars

\* Two calls are over, the first returned and the second raised in a stage
\* after both buffers were validated; a summary was read then.
C38_Witness ==
    /\ WorkflowCall /\ call.pc = "raised" /\ ncalls = 2
    /\ Len(call.validations) = 2
    /\ Len(orchestrator.execution_log) = 4
    /\ orchestrator.execution_log[2].event = "workflow_complete"
    /\ orchestrator.execution_log[4].event = "workflow_error"
    /\ call.summary # NoSummary

(***************************************************************************)
(* C39: two execute_workflow calls over the same stage instances,          *)
(* interleaved at the suspension points inside the hooks.  Every buffer a  *)
(* call creates is attached and validated by that call in the step that    *)
(* created it, at the next clock reading, and never again: each call has   *)
(* one outcome per buffer it created, and every buffer on the heap holds   *)
(* exactly one outcome, which its creator obtained.  Each call that        *)
(* returned returns what its own hooks made of its own input.              *)
(***************************************************************************)
\* Where the frame's trace records the operation, and the value recorded.
FrameAt(f, ev, arg) == {i \in 1..Len(f.trace) : f.trace[i].ev = ev /\ f.trace[i].arg = arg}
FrameVal(f, ev, arg) == f.trace[CHOOSE i \in FrameAt(f, ev, arg) : TRUE].val

ValidatedOnceByCreator(f) ==
    /\ Len(f.attached) = Len(f.created)
    /\ Len(f.validations) = Len(f.created)
    /\ \A k \in 1..Len(f.created) :
            LET c == f.created[k]
            IN  /\ f.attached[k].id = c.id
                /\ f.attached[k].stage = c.by + 1
                /\ f.attached[k].at = c.at
                /\ f.validations[k].stage = c.target
                /\ f.validations[k].outcome =
                        validate(c.buffer, c.buffer.metadata.created_at + 1).validation

OwnResult(f) ==
    f.pc = "returned" =>
        /\ \A op \in {"orchestrate", "execute_core_logic", "finalize_output"} :
                Cardinality(FrameAt(f, "call", op)) = 1
                    /\ Cardinality(FrameAt(f, "return", op)) = 1
        /\ FrameVal(f, "call", "orchestrate") = f.initial_input
        /\ FrameVal(f, "call", "execute_core_logic") = FrameVal(f, "return", "orchestrate")
        /\ FrameVal(f, "call", "finalize_output") =
                ApplyRules(stages[3].finalization_rules,
                           FrameVal(f, "return", "execute_core_logic"))
        /\ f.final_result = FrameVal(f, "return", "finalize_output")
        /\ f.created[1].data = FrameVal(f, "return", "orchestrate")
        /\ f.created[2].data = FrameVal(f, "return", "execute_core_logic")

C39_SharedStagesInterleaved ==
    /\ \A who \in Runs :
            FrameOf(who).kind = "execute_workflow" =>
                ValidatedOnceByCreator(FrameOf(who)) /\ OwnResult(FrameOf(who))
    /\ \A id \in DOMAIN buffers :
            /\ Len(buffers[id].validation_results) = 1
            /\ \E who \in Runs :
                    \E k \in 1..Len(FrameOf(who).created) :
                        /\ FrameOf(who).created[k].id = id
                        /\ buffers[id] =
                                [FrameOf(who).created[k].buffer EXCEPT
                                    !.validation_results =
                                        <<FrameOf(who).validations[k].outcome>>]

\* Both calls returned, with different inputs and different results; the
\* peer's call ran from its start to inside Bottom's hook while the other
\* call was suspended inside execute_core_logic.
C39_Witness ==
    /\ call.pc = "returned" /\ peer.call.pc = "returned"
    /\ call.initial_input # peer.call.initial_input
    /\ call.final_result # peer.call.final_result
    /\ call.created[1].buffer.metadata.created_at
            < peer.call.created[1].buffer.metadata.created_at
    /\ peer.call.created[2].buffer.metadata.created_at
            < call.created[2].buffer.metadata.created_at

(***************************************************************************)
(* C40: Warning is a member of the status set that validate never          *)
(* produces.  Every entry of every buffer's validation history, and every  *)
(* outcome a stage obtains, has status Passed or Failed; Middle.process    *)
(* and Bottom.process raise the validation error exactly when the outcome  *)
(* is Failed, and go on to their hook exactly when it is Passed.           *)
(***************************************************************************)
C40_NeverWarning ==
    /\ WARNING \in ValidationStatus
    /\ \A id \in DOMAIN buffers :
            \A k \in 1..Len(buffers[id].validation_results) :
                buffers[id].validation_results[k].status \in {PASSED, FAILED}
    /\ ProcessCall =>
            \A i \in 1..Len(call.validations) :
                LET outcome == call.validations[i].outcome
                IN  /\ outcome.status \in {PASSED, FAILED}
                    /\ outcome.status # WARNING
                    /\ (outcome.status = FAILED) <=>
                            (call.pc = "raised" /\ call.thrown = BlockedError(outcome))
                    /\ (outcome.status = PASSED) <=> (TraceAt("call", ProcessHook) # {})

\* Bottom.process went on to its hook after a Passed outcome, while the
\* heap also holds a buffer with a Failed outcome from an earlier call.
C40_Witness ==
    /\ call.kind = "bottom.process"
    /\ Len(call.validations) = 1
    /\ call.validations[1].outcome.status = PASSED
    /\ TraceAt("call", "finalize_output") # {}
    /\ \E id \in DOMAIN buffers :
            /\ buffers[id].validation_results # <<>>
            /\ buffers[id].validation_results[1].status = FAILED
=============================================================================
